------------------------- MODULE StoragePool_proofs -------------------------
(***************************************************************************)
(* Proofs about StoragePool, for any number of controllers, operators,     *)
(* attempts and state files.                                               *)
(***************************************************************************)
EXTENDS StoragePool, TLAPS

-----------------------------------------------------------------------------
\* The inductive invariant.

\* A process outside has no lock; one inside is the only one.
Outside == {"gone", "inspected", "attested"}
Beginning == {"marking", "marked", "recorded", "begun"}
Leased == {"leased", "running", "extinct", "completing", "zeroing", "zeroed"} \cup Beginning
Initing == Initializing \cup {"rollback", "rollback_marker"}
Recovering == {"matched", "receipted", "zeroing", "zeroed"}

Process == [at : Outside \cup Leased \cup Initing \cup Recovering,
            fd : Files \cup {None}, record : Records \cup {None}, quiet : BOOLEAN]

PoolTypeOK ==
    /\ marker \in {"absent", "short", "whole"}
    /\ path \in Files \cup {None}
    /\ content \in [Files -> {"none", "short"} \cup Records]
    /\ lock \in Processes \cup {None}
    /\ proc \in [Processes -> Process]
    /\ \A c \in Controllers : proc[c].at \in {"gone"} \cup Leased
    /\ \A o \in Operators : proc[o].at \in Outside \cup Initing \cup Recovering
    /\ children \subseteq Attempts
    /\ decision \in {"none", "ready", "refused", "active", "reconcile"}
    /\ begun \subseteq Attempts
    /\ excused \in BOOLEAN

Exclusive == \A p \in Processes : proc[p].at \notin Outside <=> lock = p

\* A name that was ever used has content, so no descriptor becomes the path again.
Descriptors ==
    /\ path # None => content[path] # "none"
    /\ \A p \in Processes :
          /\ proc[p].at = "gone" => proc[p].fd = None
          /\ proc[p].fd # None => content[proc[p].fd] # "none"
          /\ proc[p].at \in Leased \cup Recovering \cup {"state", "written"} => proc[p].fd # None

\* What was ever written was begun.
AllBegun ==
    /\ \A f \in Files : content[f] \in Attempts => content[f] \in begun
    /\ \A p \in Processes : proc[p].record \in Attempts => proc[p].record \in begun

\* The record a controller has in its hands, by what it does next.
ControllerOK(c) ==
    /\ proc[c].at \in Beginning \cup {"running", "extinct", "completing", "zeroing"} =>
          proc[c].record \in Attempts
    /\ proc[c].at \in Beginning \cup {"extinct", "completing", "zeroing"} =>
          proc[c].record \notin children
    /\ proc[c].at = "marking" /\ proc[c].fd = path => content[path] = "idle"
    /\ proc[c].at \in {"marked", "recorded", "begun", "running", "extinct", "completing",
                       "zeroing"} =>
          content[proc[c].fd] = proc[c].record
    /\ proc[c].at \in {"recorded", "begun", "running"} =>
          Valid /\ content[path] = proc[c].record
    /\ proc[c].at = "zeroed" => content[proc[c].fd] = "idle"
    /\ proc[c].at = "begun" => decision # "ready"

\* The record an operator attested: nobody writes under it, and nobody will.
OperatorOK(o) ==
    /\ proc[o].at \in {"inspected", "attested", "matched", "receipted", "zeroing"} =>
          proc[o].record \in Records
    /\ proc[o].at \in {"attested", "matched", "receipted", "zeroing"} =>
          /\ proc[o].record \notin children
          /\ \A c \in Controllers : proc[c].at \in Beginning => proc[c].record # proc[o].record
    /\ proc[o].at \in {"matched", "receipted", "zeroing"} => content[proc[o].fd] = proc[o].record
    /\ proc[o].at \in {"receipted", "zeroing"} => proc[o].record \in receipts
    /\ proc[o].at \in Initing => children = {}
    /\ proc[o].at = "state" => content[proc[o].fd] = "short"

\* Where an undisturbed init is.
InitOK(o) ==
    /\ proc[o].at = "empty" => Empty /\ proc[o].fd = None
    /\ proc[o].at = "marker" => marker = "short" /\ path = None /\ proc[o].fd = None
    /\ proc[o].at = "marked_pool" => marker = "whole" /\ path = None /\ proc[o].fd = None
    /\ proc[o].at = "state" => marker = "whole" /\ path = proc[o].fd
    /\ proc[o].at = "written" => Valid /\ path = proc[o].fd
    /\ proc[o].at = "rollback" => path = proc[o].fd
    /\ proc[o].at = "rollback_marker" => path = None

OwnOK(p) ==
    /\ p \in Controllers => ControllerOK(p)
    /\ p \in Operators => OperatorOK(p) /\ (~excused => InitOK(p))

PoolInvariant ==
    /\ PoolTypeOK /\ Exclusive /\ Descriptors /\ AllBegun
    /\ \A p \in Processes : OwnOK(p)
    /\ WritersAreMarked /\ ReadyIsTrue /\ InitLeavesAllOrNothing
-----------------------------------------------------------------------------
\* Facts about names, and the initial states.

LEMMA NameFacts ==
    /\ None \notin Processes /\ None \notin Files
    /\ Controllers \cap Operators = {}
    /\ \A a \in Attempts : a \notin {None, "none", "short", "idle", "torn"}
    /\ None \notin Records /\ Attempts \subseteq Records /\ {"idle", "torn"} \subseteq Records
    /\ "none" \notin Records /\ "short" \notin Records
BY NoneIsNoName, DistinctProcesses, NoneAndMarksAreNoAttempts, SMT
   DEF Processes, Files, Records

LEMMA GoneIsOutside ==
    /\ Gone \in Process
    /\ Gone.at = "gone" /\ Gone.fd = None /\ Gone.record = None
BY Zenon DEF Gone, Process, Outside

\* Two phases of different kinds are different.
LEMMA Kinds ==
    /\ Outside \cap Leased = {} /\ Outside \cap Initing = {} /\ Outside \cap Recovering = {}
    /\ Initing \cap Recovering = {} /\ Initing \cap Leased = {}
    /\ Beginning \subseteq Leased
BY SMT DEF Outside, Leased, Beginning, Initing, Initializing, Recovering

LEMMA PoolInit == Init => PoolInvariant
<1> SUFFICES ASSUME Init PROVE PoolInvariant
  OBVIOUS
<1> USE NameFacts, GoneIsOutside DEF Init
<1>1. \A p \in Processes : proc[p] = Gone
  OBVIOUS
<1>2. PoolTypeOK
  <2>1. \A c \in Controllers : proc[c].at \in {"gone"} \cup Leased
    BY <1>1 DEF Processes
  <2>2. \A o \in Operators : proc[o].at \in Outside \cup Initing \cup Recovering
    BY <1>1 DEF Processes, Outside
  <2>3. content \in [Files -> {"none", "short"} \cup Records] /\ proc \in [Processes -> Process]
    BY <1>1
  <2> QED
    BY <2>1, <2>2, <2>3 DEF PoolTypeOK
<1>3. Exclusive
  BY <1>1, SMT DEF Exclusive, Outside
<1>4. Descriptors
  BY <1>1, SMT DEF Descriptors, Leased, Beginning, Recovering
<1>5. AllBegun
  BY <1>1, SMT DEF AllBegun
<1>6. ASSUME NEW p \in Processes PROVE OwnOK(p)
  <2>1. proc[p].at = "gone"
    BY <1>1
  <2>2. p \in Controllers => ControllerOK(p)
    BY <2>1, SMT DEF ControllerOK, Beginning
  <2>3. OperatorOK(p) /\ InitOK(p)
    <3>1. /\ proc[p].at \notin {"inspected", "attested", "matched", "receipted", "zeroing", "state"}
          /\ proc[p].at \notin Initing
      BY <2>1, SMT DEF Initing, Initializing
    <3> QED
      BY <2>1, <3>1, SMT DEF OperatorOK, InitOK
  <2> QED
    BY <2>2, <2>3 DEF OwnOK
<1>7. WritersAreMarked /\ ReadyIsTrue /\ InitLeavesAllOrNothing
  BY SMT DEF WritersAreMarked, ReadyIsTrue, InitLeavesAllOrNothing, Empty
<1> QED
  BY <1>2, <1>3, <1>4, <1>5, <1>6, <1>7 DEF PoolInvariant

-----------------------------------------------------------------------------
\* What the steps of one process have in common.

\* While a process has the lock, or nobody has it, all others are outside.
LEMMA Alone ==
    ASSUME PoolInvariant, NEW p \in Processes, lock \in {p, None},
           NEW q \in Processes, q # p
    PROVE  /\ proc[q].at \in Outside
           /\ q \in Controllers => proc[q].at = "gone"
           /\ q \in Operators => proc[q].at \in {"gone", "inspected", "attested"}
<1>1. lock # q
  BY NameFacts
<1>2. proc[q].at \in Outside
  BY <1>1 DEF PoolInvariant, Exclusive
<1>3. q \in Controllers => proc[q].at = "gone"
  BY <1>2, Kinds, SMT DEF PoolInvariant, PoolTypeOK
<1> QED
  BY <1>2, <1>3 DEF Outside

\* The state a step of p leads to: types, the lock, descriptors and who has begun
\* what, and that the others are left as they were.
Types ==
    /\ marker \in {"absent", "short", "whole"}
    /\ path \in Files \cup {None}
    /\ content \in [Files -> {"none", "short"} \cup Records]
    /\ children \subseteq Attempts
    /\ decision \in {"none", "ready", "refused", "active", "reconcile"}
    /\ begun \subseteq Attempts
    /\ excused \in BOOLEAN

\* A step of p to r that breaks nothing the others rely on.
Takes(p, r) ==
    /\ lock \in {p, None}
    /\ proc' = [proc EXCEPT ![p] = r]
    /\ p \in Controllers => r.at \in {"gone"} \cup Leased
    /\ p \in Operators => r.at \in {"gone"} \cup Initing \cup Recovering
    /\ lock' = IF r.at = "gone" THEN None ELSE p
    /\ r.at = "gone" => r.fd = None
    /\ r.at \in Leased \cup Recovering \cup {"state", "written"} => r.fd # None
    /\ r.record \in Attempts => r.record \in begun'
    /\ begun \subseteq begun'
    /\ \A o \in Operators \ {p} : proc[o].at = "attested" =>
          /\ proc[o].record \notin children'
          /\ r.at \in Beginning => r.record # proc[o].record

\* What is written has a name that was begun, and no file loses its content.
Keeps(r) ==
    /\ r.fd # None => content'[r.fd] # "none"
    /\ \A f \in Files : content[f] # "none" => content'[f] # "none"
    /\ path' # None => content'[path'] # "none"
    /\ \A f \in Files : content'[f] \in Attempts => content'[f] \in begun'

LEMMA Turn ==
    ASSUME PoolInvariant, NEW p \in Processes, NEW r \in Process,
           Takes(p, r), Keeps(r), Types'
    PROVE  /\ PoolTypeOK' /\ Exclusive' /\ Descriptors' /\ AllBegun'
           /\ \A q \in Processes \ {p} : OwnOK(q)'
           /\ proc'[p] = r
<1> USE DEF PoolInvariant, Takes, Keeps
<1>1. /\ proc \in [Processes -> Process] /\ proc' \in [Processes -> Process]
      /\ proc'[p] = r
      /\ \A q \in Processes \ {p} : proc'[q] = proc[q]
  BY SMT DEF PoolTypeOK
<1>2. \A q \in Processes \ {p} :
         /\ proc[q].at \in {"gone", "inspected", "attested"}
         /\ q \in Controllers => proc[q].at = "gone"
  BY Alone DEF Outside
<1>3. PoolTypeOK'
  <2>1. \A c \in Controllers : proc'[c].at \in {"gone"} \cup Leased
    BY <1>1, SMT DEF PoolTypeOK, Processes
  <2>2. \A o \in Operators : proc'[o].at \in Outside \cup Initing \cup Recovering
    BY <1>1, SMT DEF PoolTypeOK, Processes, Outside
  <2>3. lock' \in Processes \cup {None}
    OBVIOUS
  <2> QED
    BY <1>1, <2>1, <2>2, <2>3 DEF PoolTypeOK, Types
<1>4. Exclusive'
  <2>1. ASSUME NEW q \in Processes, q # p PROVE proc'[q].at \in Outside /\ lock' # q
    BY <1>1, <1>2, <2>1, NameFacts, SMT DEF Outside
  <2>2. r.at \notin Outside <=> r.at # "gone"
    BY Kinds, SMT DEF Processes, Outside
  <2>3. proc'[p].at \notin Outside <=> lock' = p
    BY <1>1, <2>2, NameFacts
  <2> QED
    BY <2>1, <2>3 DEF Exclusive
<1>5. Descriptors'
  <2>1. ASSUME NEW q \in Processes
        PROVE  /\ proc'[q].at = "gone" => proc'[q].fd = None
               /\ proc'[q].fd # None => content'[proc'[q].fd] # "none"
               /\ proc'[q].at \in Leased \cup Recovering \cup {"state", "written"} =>
                     proc'[q].fd # None
    <3>1. CASE q = p
      BY <1>1, <3>1
    <3>2. CASE q # p
      <4>1. proc'[q] = proc[q] /\ proc[q].fd \in Files \cup {None}
        BY <1>1, <3>2, SMT DEF Process
      <4>2. /\ proc[q].at = "gone" => proc[q].fd = None
            /\ proc[q].fd # None => content[proc[q].fd] # "none"
            /\ proc[q].at \in Leased \cup Recovering \cup {"state", "written"} =>
                  proc[q].fd # None
        BY DEF Descriptors
      <4> QED
        BY <4>1, <4>2
    <3> QED
      BY <3>1, <3>2
  <2> QED
    BY <2>1 DEF Descriptors
<1>6. AllBegun'
  <2>1. ASSUME NEW q \in Processes, proc'[q].record \in Attempts
        PROVE  proc'[q].record \in begun'
    BY <1>1, <2>1 DEF AllBegun
  <2> QED
    BY <2>1 DEF AllBegun
<1>7. ASSUME NEW q \in Processes, q # p PROVE OwnOK(q)'
  <2>1. proc'[q] = proc[q] /\ proc[q].at \in {"gone", "inspected", "attested"}
    BY <1>1, <1>2, <1>7
  <2>2. ASSUME q \in Controllers PROVE ControllerOK(q)'
    <3>1. proc'[q].at = "gone"
      BY <1>2, <1>7, <2>1, <2>2
    <3> QED
      BY <3>1, SMT DEF ControllerOK, Beginning
  <2>3. ASSUME q \in Operators PROVE OperatorOK(q)'
    <3>1. OperatorOK(q)
      BY <2>3 DEF OwnOK
    <3>2. proc'[q].at \in {"inspected", "attested"} => proc'[q].record \in Records
      BY <2>1, <3>1, SMT DEF OperatorOK
    <3>3. ASSUME proc[q].at = "attested", q \in Operators \ {p}
          PROVE  /\ proc[q].record \notin children'
                 /\ \A c \in Controllers : proc'[c].at \in Beginning =>
                       proc'[c].record # proc[q].record
      <4>1. \A c \in Controllers : c # p => proc'[c].at = "gone"
        BY <1>1, <1>2, SMT DEF Processes
      <4>2. "gone" \notin Beginning
        BY SMT DEF Beginning
      <4>3. /\ proc[q].record \notin children'
            /\ r.at \in Beginning => r.record # proc[q].record
        BY <3>3
      <4> QED
        BY <1>1, <4>1, <4>2, <4>3, SMT DEF Processes
    <3>4. /\ proc'[q].at \notin {"matched", "receipted", "zeroing", "state"}
          /\ proc'[q].at \notin Initing
      BY <2>1, SMT DEF Initing, Initializing
    <3> QED
      BY <1>7, <2>1, <2>3, <3>2, <3>3, <3>4, SMT DEF OperatorOK
  <2>4. InitOK(q)'
    BY <2>1, SMT DEF InitOK
  <2> QED
    BY <2>2, <2>3, <2>4 DEF OwnOK
<1> QED
  BY <1>1, <1>3, <1>4, <1>5, <1>6, <1>7

Phases == Outside \cup Leased \cup Initing \cup Recovering

LEMMA Goes ==
    ASSUME PoolTypeOK, NEW p \in Processes, NEW phase \in Phases, Go(p, phase)
    PROVE  \E r \in Process :
              /\ proc' = [proc EXCEPT ![p] = r]
              /\ r.at = phase /\ r.fd = proc[p].fd /\ r.record = proc[p].record
<1> DEFINE r == [proc[p] EXCEPT !.at = phase]
<1>1. proc \in [Processes -> Process] /\ proc[p] \in Process
  BY DEF PoolTypeOK
<1>2. r \in Process
  BY <1>1, Zenon DEF Process, Phases
<1>3. r.at = phase /\ r.fd = proc[p].fd /\ r.record = proc[p].record
  BY <1>1, SMT DEF Process
<1>4. proc' = [proc EXCEPT ![p] = r]
  BY <1>1 DEF Go
<1> QED
  BY <1>2, <1>3, <1>4

\* Before and after the initialization of a pool nobody initializes it.
LEMMA NobodyInits ==
    ASSUME PoolInvariant, NEW p \in Processes, lock \in {p, None}, ~(p \in Operators /\ InInit(p))
    PROVE  \A o \in Operators : ~InInit(o)
<1> SUFFICES ASSUME NEW o \in Operators, o # p PROVE ~InInit(o)
  OBVIOUS
<1>1. proc[o].at \in Outside
  BY Alone DEF Processes
<1> QED
  BY <1>1, Kinds DEF InInit, Initing

\* A step of p that leaves the pool as it is.
LEMMA TurnStill ==
    ASSUME PoolInvariant, NEW p \in Processes, NEW r \in Process, Takes(p, r),
           UNCHANGED pool,
           r.fd # None => content[r.fd] # "none",
           children' \subseteq Attempts,
           children' = {} \/ (Valid /\ \A a \in children' : content[path] = a),
           decision' \in {"none", "ready", "refused", "active", "reconcile"},
           decision' = "ready" => children' = {},
           begun' \subseteq Attempts,
           excused' \in BOOLEAN, excused => excused',
           p \in Operators /\ InInit(p) /\ r.at \notin Initing => excused' \/ Valid \/ Empty,
           OwnOK(p)'
    PROVE  PoolInvariant'
<1>1. marker' = marker /\ path' = path /\ content' = content
  BY DEF pool
<1>2. PoolTypeOK /\ Descriptors /\ AllBegun /\ begun \subseteq begun' /\ lock \in {p, None}
  BY DEF PoolInvariant, Takes
<1>3. Types'
  BY <1>1, <1>2 DEF PoolTypeOK, Types
<1>4. Keeps(r)
  BY <1>1, <1>2 DEF Descriptors, AllBegun, Keeps
<1>5. /\ PoolTypeOK' /\ Exclusive' /\ Descriptors' /\ AllBegun'
      /\ \A q \in Processes \ {p} : OwnOK(q)'
      /\ proc'[p] = r
  BY <1>3, <1>4, Turn
<1>6. Valid' = Valid /\ Empty' = Empty
  BY <1>1 DEF Valid, Empty
<1>7. WritersAreMarked'
  BY <1>1, <1>6 DEF WritersAreMarked
<1>8. ReadyIsTrue'
  BY DEF ReadyIsTrue
<1>9. InitLeavesAllOrNothing'
  <2> SUFFICES ASSUME ~excused', \A o \in Operators : ~InInit(o)' PROVE Valid' \/ Empty'
    BY DEF InitLeavesAllOrNothing
  <2>1. CASE p \in Operators /\ InInit(p)
    <3>1. r.at \notin Initing
      BY <1>5, <2>1 DEF InInit, Initing
    <3> QED
      BY <1>6, <2>1, <3>1
  <2>2. CASE ~(p \in Operators /\ InInit(p))
    <3>1. \A o \in Operators : ~InInit(o)
      BY <1>2, <2>2, NobodyInits
    <3>2. Valid \/ Empty
      BY <3>1 DEF PoolInvariant, InitLeavesAllOrNothing
    <3> QED
      BY <1>6, <3>2
  <2> QED
    BY <2>1, <2>2
<1> QED
  BY <1>5, <1>7, <1>8, <1>9 DEF PoolInvariant

\* A step of p that writes the file it has open.  If that is the pool's file, nobody
\* writes the pool by now.
LEMMA TurnWrite ==
    ASSUME PoolInvariant, NEW p \in Processes, NEW r \in Process, Takes(p, r),
           NEW record \in Records, proc[p].fd \in Files, Put(p, record),
           marker' = marker, path' = path,
           record \in Attempts => record \in begun,
           proc[p].fd = path => children = {},
           r.fd \in {None, proc[p].fd},
           children' = children, begun' = begun,
           decision' \in {"none", "ready", "refused", "active", "reconcile"},
           decision' = "ready" => children = {},
           excused' \in BOOLEAN, excused => excused',
           p \in Operators /\ InInit(p) /\ r.at \notin Initing => excused',
           OwnOK(p)'
    PROVE  PoolInvariant'
<1>1. /\ PoolTypeOK /\ Descriptors /\ AllBegun /\ \A q \in Processes : OwnOK(q)
      /\ lock \in {p, None}
  BY DEF PoolInvariant, Takes
<1>2. /\ content \in [Files -> {"none", "short"} \cup Records]
      /\ path \in Files \cup {None}
  BY <1>1 DEF PoolTypeOK
<1>3. /\ content' \in [Files -> {"none", "short"} \cup Records]
      /\ \A f \in Files : f # proc[p].fd => content'[f] = content[f]
      /\ content'[proc[p].fd] = record
      /\ record \notin {"none", "short"}
  BY <1>2, NameFacts, SMT DEF Put
<1>4. Types'
  BY <1>1, <1>2, <1>3 DEF PoolTypeOK, Types
<1>5. Keeps(r)
  BY <1>1, <1>2, <1>3 DEF Descriptors, AllBegun, Keeps
<1>6. /\ PoolTypeOK' /\ Exclusive' /\ Descriptors' /\ AllBegun'
      /\ \A q \in Processes \ {p} : OwnOK(q)'
      /\ proc'[p] = r
  BY <1>4, <1>5, Turn
<1>7. Valid => Valid'
  BY <1>2, <1>3 DEF Valid
<1>8. Empty' = Empty
  BY DEF Empty
<1>9. WritersAreMarked'
  <2> SUFFICES ASSUME NEW a \in children PROVE Valid' /\ content'[path'] = a
    BY DEF WritersAreMarked
  <2>1. Valid /\ content[path] = a /\ proc[p].fd # path
    BY DEF PoolInvariant, WritersAreMarked
  <2> QED
    BY <1>2, <1>3, <1>7, <2>1 DEF Valid
<1>10. ReadyIsTrue'
  BY DEF ReadyIsTrue
<1>11. InitLeavesAllOrNothing'
  <2> SUFFICES ASSUME ~excused', \A o \in Operators : ~InInit(o)' PROVE Valid' \/ Empty'
    BY DEF InitLeavesAllOrNothing
  <2>1. ~(p \in Operators /\ InInit(p))
    BY <1>6 DEF InInit, Initing
  <2>2. \A o \in Operators : ~InInit(o)
    BY <1>1, <2>1, NobodyInits
  <2>3. Valid \/ Empty
    BY <2>2 DEF PoolInvariant, InitLeavesAllOrNothing
  <2> QED
    BY <1>7, <1>8, <2>3
<1> QED
  BY <1>6, <1>9, <1>10, <1>11 DEF PoolInvariant

-----------------------------------------------------------------------------
\* The controllers.

\* A process that has the lock keeps it or leaves.
LEMMA Insider ==
    ASSUME PoolInvariant, NEW p \in Processes, proc[p].at \notin Outside, NEW r \in Process,
           proc' = [proc EXCEPT ![p] = r],
           p \in Controllers => r.at \in {"gone"} \cup Leased,
           p \in Operators => r.at \in {"gone"} \cup Initing \cup Recovering,
           lock' = IF r.at = "gone" THEN None ELSE p,
           r.at = "gone" => r = Gone,
           r.at # "gone" => r.record = proc[p].record,
           r.at \in Leased \cup Recovering \cup {"state", "written"} => r.fd # None,
           r.at \in Beginning => proc[p].at \in Beginning,
           children' = children, begun' = begun
    PROVE  Takes(p, r) /\ lock = p
<1>1. lock = p
  BY DEF PoolInvariant, Exclusive
<1>2. r.record \in Attempts => r.record \in begun'
  <2>1. proc[p].record \in Attempts => proc[p].record \in begun
    BY DEF PoolInvariant, AllBegun
  <2> QED
    BY <2>1, NameFacts, GoneIsOutside
<1>3. ASSUME NEW o \in Operators \ {p}, proc[o].at = "attested"
      PROVE  /\ proc[o].record \notin children'
             /\ r.at \in Beginning => r.record # proc[o].record
  <2>1. OperatorOK(o)
    BY DEF PoolInvariant, OwnOK, Processes
  <2>2. /\ proc[o].record \notin children
        /\ \A c \in Controllers : proc[c].at \in Beginning => proc[c].record # proc[o].record
    BY <1>3, <2>1, SMT DEF OperatorOK
  <2>3. ASSUME r.at \in Beginning PROVE p \in Controllers /\ r.record = proc[p].record
    BY <2>3, SMT DEF Beginning, Initing, Initializing, Recovering, Processes
  <2> QED
    BY <2>2, <2>3
<1>4. r.at = "gone" => r.fd = None
  BY GoneIsOutside
<1> QED
  BY <1>1, <1>2, <1>3, <1>4 DEF Takes

LEMMA ControllerTurn ==
    ASSUME PoolInvariant, NEW c \in Controllers, proc[c].at \in Leased, NEW r \in Process,
           r.at \in Leased, r.fd = proc[c].fd, r.record = proc[c].record,
           proc' = [proc EXCEPT ![c] = r],
           r.at \in Beginning => proc[c].at \in Beginning,
           UNCHANGED <<pool, lock, children, history>>,
           decision' \in {"none", "ready", "refused", "active", "reconcile"},
           decision' = "ready" => children = {},
           ControllerOK(c)'
    PROVE  PoolInvariant'
<1>1. /\ c \in Processes /\ c \notin Operators
      /\ proc[c].at \notin Outside /\ r.at \notin Outside /\ r.at # "gone"
      /\ "gone" \in Outside
  BY NameFacts, Kinds DEF Processes, Outside
<1>2. lock = c /\ lock' = c /\ PoolTypeOK /\ Descriptors
  BY <1>1 DEF PoolInvariant, Exclusive
<1>3. proc[c].fd # None /\ content[proc[c].fd] # "none"
  BY <1>1, <1>2 DEF Descriptors
<1>4. begun' = begun /\ excused' = excused
  BY DEF history
<1>5. Takes(c, r)
  BY <1>1, <1>2, <1>3, <1>4, Insider
<1>6. OwnOK(c)'
  BY <1>1 DEF OwnOK
<1>7. /\ children' \subseteq Attempts /\ begun' \subseteq Attempts /\ excused' \in BOOLEAN
      /\ children' = {} \/ (Valid /\ \A a \in children' : content[path] = a)
  BY <1>2, <1>4 DEF PoolTypeOK, PoolInvariant, WritersAreMarked
<1> QED
  BY <1>1, <1>3, <1>4, <1>5, <1>6, <1>7, TurnStill

\* What the steps of a controller may take from the invariant.
LEMMA OfController ==
    ASSUME PoolInvariant, NEW c \in Controllers
    PROVE  /\ c \in Processes /\ c \notin Operators /\ PoolTypeOK
           /\ proc[c] \in Process /\ ControllerOK(c)
           /\ proc[c].at \in Leased => /\ lock = c
                                       /\ proc[c].at \notin Outside
                                       /\ proc[c].fd \in Files
                                       /\ content[proc[c].fd] # "none"
           /\ decision \in {"none", "ready", "refused", "active", "reconcile"}
           /\ decision = "ready" => children = {}
           /\ \A a \in children : content[path] = a /\ a \in Attempts
<1>1. PoolTypeOK /\ Descriptors /\ Exclusive /\ WritersAreMarked /\ ReadyIsTrue
  BY DEF PoolInvariant
<1>2. c \in Processes /\ c \notin Operators
  BY NameFacts DEF Processes
<1>3. proc[c] \in Process /\ proc[c].fd \in Files \cup {None}
  BY <1>1, <1>2, SMT DEF PoolTypeOK, Process
<1>4. ControllerOK(c)
  BY <1>2 DEF PoolInvariant, OwnOK
<1>5. ASSUME proc[c].at \in Leased
      PROVE  lock = c /\ proc[c].at \notin Outside /\ proc[c].fd \in Files
             /\ content[proc[c].fd] # "none"
  BY <1>1, <1>2, <1>3, <1>5, Kinds DEF Exclusive, Descriptors
<1> QED
  BY <1>1, <1>2, <1>3, <1>4, <1>5 DEF PoolTypeOK, WritersAreMarked, ReadyIsTrue

LEMMA IdleIsQuiet ==
    ASSUME PoolInvariant, content[path] = "idle"
    PROVE  children = {}
BY NameFacts DEF PoolInvariant, PoolTypeOK, WritersAreMarked

LEMMA PhaseFacts ==
    /\ Beginning \subseteq Leased
    /\ {"leased", "running", "extinct", "completing", "zeroing", "zeroed",
        "marking", "marked", "recorded", "begun"} \subseteq Leased
    /\ {"marking", "marked", "recorded", "begun"} \subseteq Beginning
    /\ {"leased", "running", "extinct", "completing", "zeroing", "zeroed"} \cap Beginning = {}
    /\ {"matched", "receipted", "zeroing", "zeroed"} \subseteq Recovering
    /\ {"empty", "marker", "marked_pool", "state", "written", "rollback",
        "rollback_marker"} \subseteq Initing
    /\ {"gone", "inspected", "attested"} \subseteq Outside
    /\ {"gone", "inspected", "attested"} \cap (Leased \cup Initing \cup Recovering) = {}
    /\ Leased \subseteq Phases /\ Initing \subseteq Phases /\ Recovering \subseteq Phases
    /\ Outside \subseteq Phases
BY SMT DEF Beginning, Leased, Recovering, Initing, Initializing, Outside, Phases

LEMMA CheckStep ==
    ASSUME PoolInvariant, NEW c \in Controllers, Check(c)
    PROVE  PoolInvariant'
<1> USE OfController, PhaseFacts
<1>1. proc[c].at = "leased" /\ proc' = proc /\ UNCHANGED <<pool, lock, children, history>>
  BY DEF Check
<1>2. proc' = [proc EXCEPT ![c] = proc[c]]
  BY <1>1 DEF PoolTypeOK
<1>3. MayAdmit(c) => children = {}
  BY IdleIsQuiet DEF MayAdmit, Current, Dirty
<1>4. /\ decision' \in {"none", "ready", "refused", "active", "reconcile"}
      /\ decision' = "ready" => children = {}
  BY <1>3 DEF Check, Persist
<1>5. ControllerOK(c)'
  BY <1>1, SMT DEF ControllerOK, Beginning
<1>6. proc[c] \in Process /\ proc[c].at \in Leased /\ proc[c].at \notin Beginning
  BY <1>1
<1> QED
  BY <1>1, <1>2, <1>4, <1>5, <1>6, ControllerTurn

\* The rest of a controller's steps that go from one phase to another.
LEMMA ControllerGoes ==
    ASSUME PoolInvariant, NEW c \in Controllers, proc[c].at \in Leased,
           NEW phase \in Leased, Go(c, phase),
           phase \in Beginning => proc[c].at \in Beginning,
           UNCHANGED <<pool, lock, children, history>>,
           decision' \in {"none", "ready", "refused", "active", "reconcile"},
           decision' = "ready" => children = {},
           phase # "leased" =>
              /\ proc[c].record \in Attempts
              /\ phase # "running" => proc[c].record \notin children
              /\ content[proc[c].fd] = proc[c].record
              /\ phase \in {"recorded", "begun"} => Valid /\ content[path] = proc[c].record
              /\ phase \notin {"marking", "running", "zeroed"}
              /\ phase = "begun" => decision' # "ready"
    PROVE  PoolInvariant'
<1>1. PICK r \in Process : /\ proc' = [proc EXCEPT ![c] = r]
                           /\ r.at = phase /\ r.fd = proc[c].fd /\ r.record = proc[c].record
  BY OfController, PhaseFacts, Goes
<1>2. proc'[c] = r
  BY <1>1, OfController DEF PoolTypeOK
<1>3. content' = content /\ Valid' = Valid /\ path' = path
  BY DEF pool, Valid
<1>4. ControllerOK(c)'
  BY <1>1, <1>2, <1>3, SMT DEF ControllerOK, Beginning
<1> QED
  BY <1>1, <1>4, ControllerTurn

LEMMA ConfirmMarkStep ==
    ASSUME PoolInvariant, NEW c \in Controllers, ConfirmMark(c)
    PROVE  PoolInvariant'
<1>1. proc[c].at = "marked" /\ UNCHANGED <<pool, lock, children, history>> /\ decision' = decision
  BY DEF ConfirmMark
<1>2. proc[c].at \in Leased /\ proc[c].at \in Beginning
  BY <1>1, PhaseFacts
<1>3. proc[c].record \in Attempts \ children /\ content[proc[c].fd] = proc[c].record
  BY <1>1, <1>2, OfController, SMT DEF ControllerOK
<1>4. CASE Current(c)
  <2>1. Valid /\ content[path] = proc[c].record /\ Go(c, "recorded") /\ "recorded" \in Leased
    BY <1>1, <1>3, <1>4, PhaseFacts DEF Current, ConfirmMark
  <2> QED
    BY <1>1, <1>2, <1>3, <2>1, OfController, ControllerGoes
<1>5. CASE ~Current(c)
  <2>1. Go(c, "leased") /\ "leased" \in Leased \ Beginning
    BY <1>1, <1>5, PhaseFacts DEF ConfirmMark
  <2> QED
    BY <1>1, <1>2, <1>3, <2>1, OfController, ControllerGoes
<1> QED
  BY <1>4, <1>5

LEMMA DecideActiveStep ==
    ASSUME PoolInvariant, NEW c \in Controllers, DecideActive(c)
    PROVE  PoolInvariant'
<1>1. /\ proc[c].at = "recorded" /\ Go(c, "begun") /\ decision' = "active"
      /\ UNCHANGED <<pool, lock, children, history>>
  BY DEF DecideActive
<1>2. proc[c].at \in Leased /\ proc[c].at \in Beginning /\ "begun" \in Leased
  BY <1>1, PhaseFacts
<1>3. /\ proc[c].record \in Attempts \ children /\ content[proc[c].fd] = proc[c].record
      /\ Valid /\ content[path] = proc[c].record
  BY <1>1, <1>2, OfController, SMT DEF ControllerOK
<1> QED
  BY <1>1, <1>2, <1>3, ControllerGoes

LEMMA CompleteStep ==
    ASSUME PoolInvariant, NEW c \in Controllers, Complete(c)
    PROVE  PoolInvariant'
<1>1. /\ proc[c].at \in {"begun", "extinct"} /\ Go(c, "completing") /\ decision' = decision
      /\ UNCHANGED <<pool, lock, children, history>>
  BY DEF Complete, MayComplete
<1>2. proc[c].at \in Leased /\ "completing" \in Leased \ Beginning
  BY <1>1, PhaseFacts
<1>3. proc[c].record \in Attempts \ children /\ content[proc[c].fd] = proc[c].record
  BY <1>1, <1>2, OfController, SMT DEF ControllerOK, Beginning
<1> QED
  BY <1>1, <1>2, <1>3, OfController, ControllerGoes

LEMMA UncertainStep ==
    ASSUME PoolInvariant, NEW c \in Controllers, Uncertain(c)
    PROVE  PoolInvariant'
<1>1. /\ proc[c].at \in {"running", "extinct"} /\ Go(c, "leased") /\ decision' \in {decision, "reconcile"}
      /\ UNCHANGED <<pool, lock, children, history>>
  BY DEF Uncertain, Persist
<1>2. proc[c].at \in Leased /\ "leased" \in Leased \ Beginning
  BY <1>1, PhaseFacts
<1>3. /\ decision' \in {"none", "ready", "refused", "active", "reconcile"}
      /\ decision' = "ready" => children = {}
  BY <1>1, OfController
<1> QED
  BY <1>1, <1>2, <1>3, ControllerGoes

LEMMA Clears ==
    ASSUME PoolInvariant, NEW c \in Controllers, proc[c].at \in Leased, NEW d,
           d \in {"none", "ready", "refused", "active", "reconcile"},
           Cleared(c, d)
    PROVE  /\ \E r \in Process :
                 /\ proc' = [proc EXCEPT ![c] = r]
                 /\ r.at = "leased" /\ r.fd = proc[c].fd /\ r.record = proc[c].record
           /\ decision' \in {decision, d}
<1> DEFINE r == [proc[c] EXCEPT !.at = "leased", !.quiet = FALSE]
<1>1. proc \in [Processes -> Process] /\ proc[c] \in Process /\ "leased" \in Phases
  BY OfController, PhaseFacts DEF PoolTypeOK
<1>2. r \in Process
  BY <1>1, Zenon DEF Process, Phases
<1>3. r.at = "leased" /\ r.fd = proc[c].fd /\ r.record = proc[c].record
  BY <1>1, SMT DEF Process
<1>4. proc' = [proc EXCEPT ![c] = r]
  BY <1>1 DEF Cleared
<1>5. decision' \in {decision, d}
  BY DEF Cleared, Persist
<1> QED
  BY <1>2, <1>3, <1>4, <1>5

\* A clear that ends without a write.
LEMMA ClearedTurn ==
    ASSUME PoolInvariant, NEW c \in Controllers, proc[c].at \in Leased, NEW d,
           d \in {"none", "ready", "refused", "active", "reconcile"},
           d = "ready" => children = {},
           Cleared(c, d), UNCHANGED <<pool, lock, children, history>>
    PROVE  PoolInvariant'
<1>1. PICK r \in Process : /\ proc' = [proc EXCEPT ![c] = r]
                           /\ r.at = "leased" /\ r.fd = proc[c].fd /\ r.record = proc[c].record
  BY Clears
<1>2. /\ decision' \in {"none", "ready", "refused", "active", "reconcile"}
      /\ decision' = "ready" => children = {}
  BY Clears, OfController
<1>3. proc'[c].at = "leased"
  BY <1>1, OfController DEF PoolTypeOK
<1>4. ControllerOK(c)'
  BY <1>3, SMT DEF ControllerOK, Beginning
<1>5. r.at \in Leased /\ r.at \notin Beginning
  BY <1>1, PhaseFacts
<1> QED
  BY <1>1, <1>2, <1>4, <1>5, ControllerTurn

LEMMA VerifyCompleteStep ==
    ASSUME PoolInvariant, NEW c \in Controllers, VerifyComplete(c)
    PROVE  PoolInvariant'
<1>1. proc[c].at = "completing" /\ UNCHANGED <<pool, lock, children, history>>
  BY DEF VerifyComplete
<1>2. proc[c].at \in Leased /\ "zeroing" \in Leased \ Beginning
  BY <1>1, PhaseFacts
<1>3. CASE Go(c, "zeroing") /\ UNCHANGED decision
  <2>1. proc[c].record \in Attempts \ children /\ content[proc[c].fd] = proc[c].record
    BY <1>1, OfController, SMT DEF ControllerOK, Beginning
  <2> QED
    BY <1>1, <1>2, <1>3, <2>1, OfController, ControllerGoes
<1>4. CASE Cleared(c, "refused")
  BY <1>1, <1>2, <1>4, ClearedTurn
<1> QED
  BY <1>3, <1>4 DEF VerifyComplete

LEMMA ConfirmCompleteStep ==
    ASSUME PoolInvariant, NEW c \in Controllers, ConfirmComplete(c)
    PROVE  PoolInvariant'
<1>1. proc[c].at = "zeroed" /\ UNCHANGED <<pool, lock, children, history>>
  BY DEF ConfirmComplete
<1>2. proc[c].at \in Leased
  BY <1>1, PhaseFacts
<1>3. CASE Current(c) /\ Cleared(c, "ready")
  <2>1. content[proc[c].fd] = "idle"
    BY <1>1, OfController, SMT DEF ControllerOK
  <2>2. children = {}
    BY <1>3, <2>1, IdleIsQuiet DEF Current
  <2> QED
    BY <1>1, <1>2, <1>3, <2>2, ClearedTurn
<1>4. CASE Cleared(c, "refused")
  BY <1>1, <1>2, <1>4, ClearedTurn
<1> QED
  BY <1>3, <1>4 DEF ConfirmComplete

LEMMA CompensateStep ==
    ASSUME PoolInvariant, NEW c \in Controllers, Compensate(c)
    PROVE  PoolInvariant'
<1>1. /\ proc[c].at = "recorded" /\ decision' \in {decision, "active"}
      /\ UNCHANGED <<pool, lock, children, history>>
  BY DEF Compensate, Persist
<1>2. /\ proc[c].at \in Leased /\ "completing" \in Leased \ Beginning /\ "completing" \in Phases
      /\ proc \in [Processes -> Process] /\ proc[c] \in Process
  BY <1>1, PhaseFacts, OfController DEF PoolTypeOK
<1>3. PICK r \in Process : /\ r.at = "completing" /\ r.fd = proc[c].fd
                           /\ r.record = proc[c].record /\ proc' = [proc EXCEPT ![c] = r]
  <2> DEFINE q == [proc[c] EXCEPT !.at = "completing", !.quiet = TRUE]
  <2>1. q \in Process
    BY <1>2, Zenon DEF Process, Phases
  <2>2. q.at = "completing" /\ q.fd = proc[c].fd /\ q.record = proc[c].record
    BY <1>2, SMT DEF Process
  <2>3. proc' = [proc EXCEPT ![c] = q]
    BY <1>2 DEF Compensate
  <2> QED
    BY <2>1, <2>2, <2>3
<1>4. proc'[c] = r
  BY <1>2, <1>3, OfController
<1>5. /\ proc[c].record \in Attempts \ children /\ content[proc[c].fd] = proc[c].record
      /\ content' = content /\ children' = children
  BY <1>1, OfController, SMT DEF ControllerOK, Beginning, pool
<1>6. ControllerOK(c)'
  BY <1>3, <1>4, <1>5, SMT DEF ControllerOK, Beginning
<1>7. /\ decision' \in {"none", "ready", "refused", "active", "reconcile"}
      /\ decision' = "ready" => children = {}
  BY <1>1, OfController
<1> QED
  BY <1>1, <1>2, <1>3, <1>6, <1>7, ControllerTurn


LEMMA BeginStep ==
    ASSUME PoolInvariant, NEW c \in Controllers, NEW a \in Attempts, Begin(c, a)
    PROVE  PoolInvariant'
<1>1. /\ proc[c].at = "leased" /\ a \notin begun /\ MayAdmit(c) /\ decision' = "ready"
      /\ begun' = begun \cup {a} /\ excused' = excused /\ children' = children
      /\ UNCHANGED pool /\ lock' = lock /\ receipts' = receipts
  BY DEF Begin
<1>2. /\ proc[c].at \in Leased /\ "marking" \in Leased /\ "marking" \in Phases
      /\ proc \in [Processes -> Process] /\ proc[c] \in Process /\ c \in Processes
      /\ a \in Records /\ PoolTypeOK
  BY <1>1, PhaseFacts, OfController, NameFacts DEF PoolTypeOK
<1>3. PICK r \in Process : /\ r.at = "marking" /\ r.fd = proc[c].fd
                           /\ r.record = a /\ proc' = [proc EXCEPT ![c] = r]
  <2> DEFINE q == [proc[c] EXCEPT !.at = "marking", !.record = a]
  <2>1. q \in Process
    BY <1>2, Zenon DEF Process, Phases
  <2>2. q.at = "marking" /\ q.fd = proc[c].fd /\ q.record = a
    BY <1>2, SMT DEF Process
  <2>3. proc' = [proc EXCEPT ![c] = q]
    BY <1>2 DEF Begin
  <2> QED
    BY <2>1, <2>2, <2>3
<1>4. proc'[c] = r /\ lock = c /\ c \notin Operators /\ proc[c].fd \in Files
      /\ content[proc[c].fd] # "none"
  BY <1>2, <1>3, OfController
<1>5. content[path] = "idle" /\ content' = content /\ path' = path /\ children = {}
  BY <1>1, IdleIsQuiet DEF MayAdmit, Current, Dirty, pool
<1>6. ControllerOK(c)'
  BY <1>1, <1>3, <1>4, <1>5, SMT DEF ControllerOK, Beginning
<1>7. Takes(c, r)
  <2>1. ASSUME NEW o \in Operators \ {c}, proc[o].at = "attested"
        PROVE  proc[o].record \notin children' /\ r.record # proc[o].record
    <3>1. proc[o].record \in Attempts => proc[o].record \in begun
      BY DEF PoolInvariant, AllBegun, Processes
    <3> QED
      BY <1>1, <1>3, <1>5, <3>1
  <2>2. r.at # "gone" /\ r.at \in Leased /\ r.fd # None
    BY <1>2, <1>3, <1>4, NameFacts
  <2> QED
    BY <1>1, <1>3, <1>4, <2>1, <2>2 DEF Takes
<1>8. /\ OwnOK(c)' /\ children' = {} /\ children' \subseteq Attempts
      /\ begun' \subseteq Attempts /\ excused' \in BOOLEAN
      /\ decision' \in {"none", "ready", "refused", "active", "reconcile"}
      /\ r.fd # None => content[r.fd] # "none"
  BY <1>1, <1>2, <1>3, <1>4, <1>5, <1>6 DEF OwnOK, PoolTypeOK
<1> QED
  BY <1>1, <1>2, <1>4, <1>7, <1>8, TurnStill

LEMMA LaunchStep ==
    ASSUME PoolInvariant, NEW c \in Controllers, Launch(c)
    PROVE  PoolInvariant'
<1>1. /\ proc[c].at = "begun" /\ Go(c, "running") /\ children' = children \cup {proc[c].record}
      /\ UNCHANGED pool /\ lock' = lock /\ decision' = decision /\ receipts' = receipts
      /\ begun' = begun /\ excused' = excused
  BY DEF Launch, history
<1>2. /\ proc[c].at \in Leased /\ proc[c].at \in Beginning /\ "running" \in Leased \ Beginning
      /\ "running" \in Phases /\ c \in Processes /\ PoolTypeOK /\ lock = c /\ c \notin Operators
      /\ proc[c].fd \in Files /\ content[proc[c].fd] # "none"
  BY <1>1, PhaseFacts, OfController
<1>3. /\ proc[c].record \in Attempts /\ content[proc[c].fd] = proc[c].record
      /\ Valid /\ content[path] = proc[c].record /\ decision # "ready"
  BY <1>1, OfController, SMT DEF ControllerOK, Beginning
<1>4. PICK r \in Process :
         /\ proc' = [proc EXCEPT ![c] = r]
         /\ r.at = "running" /\ r.fd = proc[c].fd /\ r.record = proc[c].record
  BY <1>1, <1>2, Goes
<1>5. proc'[c] = r /\ content' = content /\ path' = path /\ Valid' = Valid
  BY <1>1, <1>2, <1>4 DEF PoolTypeOK, pool, Valid
<1>6. ControllerOK(c)'
  BY <1>3, <1>4, <1>5, SMT DEF ControllerOK, Beginning
<1>7. Takes(c, r)
  <2>1. ASSUME NEW o \in Operators \ {c}, proc[o].at = "attested"
        PROVE  proc[o].record \notin children'
    <3>1. OperatorOK(o)
      BY DEF PoolInvariant, OwnOK, Processes
    <3>2. proc[o].record \notin children /\ proc[c].record # proc[o].record
      BY <1>2, <2>1, <3>1, SMT DEF OperatorOK
    <3> QED
      BY <1>1, <3>2
  <2>2. r.record \in Attempts => r.record \in begun'
    BY <1>1, <1>2, <1>4 DEF PoolInvariant, AllBegun
  <2>3. r.at # "gone" /\ r.at \in Leased \ Beginning /\ r.fd # None
    BY <1>2, <1>4, NameFacts
  <2> QED
    BY <1>1, <1>2, <1>4, <2>1, <2>2, <2>3 DEF Takes
<1>8. /\ children' \subseteq Attempts /\ \A a \in children' : content[path] = a
      /\ begun' \subseteq Attempts /\ excused' \in BOOLEAN
      /\ decision' \in {"none", "ready", "refused", "active", "reconcile"}
      /\ decision' # "ready"
  BY <1>1, <1>2, <1>3, OfController DEF PoolTypeOK
<1>9. OwnOK(c)'
  BY <1>2, <1>6 DEF OwnOK
<1> QED
  BY <1>1, <1>2, <1>3, <1>4, <1>7, <1>8, <1>9, TurnStill

LEMMA StopGroupStep ==
    ASSUME PoolInvariant, NEW c \in Controllers, StopGroup(c)
    PROVE  PoolInvariant'
<1>1. /\ proc[c].at = "running" /\ Go(c, "extinct") /\ children' = children \ {proc[c].record}
      /\ UNCHANGED pool /\ lock' = lock /\ decision' = decision /\ receipts' = receipts
      /\ begun' = begun /\ excused' = excused
  BY DEF StopGroup, history
<1>2. /\ proc[c].at \in Leased /\ "extinct" \in Leased \ Beginning
      /\ "extinct" \in Phases /\ c \in Processes /\ PoolTypeOK /\ lock = c /\ c \notin Operators
      /\ proc[c].fd \in Files /\ content[proc[c].fd] # "none"
  BY <1>1, PhaseFacts, OfController
<1>3. proc[c].record \in Attempts /\ content[proc[c].fd] = proc[c].record
  BY <1>1, OfController, SMT DEF ControllerOK
<1>4. PICK r \in Process :
         /\ proc' = [proc EXCEPT ![c] = r]
         /\ r.at = "extinct" /\ r.fd = proc[c].fd /\ r.record = proc[c].record
  BY <1>1, <1>2, Goes
<1>5. proc'[c] = r /\ content' = content
  BY <1>1, <1>2, <1>4 DEF PoolTypeOK, pool
<1>6. ControllerOK(c)'
  BY <1>1, <1>3, <1>4, <1>5, SMT DEF ControllerOK, Beginning
<1>7. Takes(c, r)
  <2>1. ASSUME NEW o \in Operators \ {c}, proc[o].at = "attested"
        PROVE  proc[o].record \notin children'
    <3>1. OperatorOK(o)
      BY DEF PoolInvariant, OwnOK, Processes
    <3>2. proc[o].record \notin children
      BY <2>1, <3>1, SMT DEF OperatorOK
    <3> QED
      BY <1>1, <3>2
  <2>2. r.record \in Attempts => r.record \in begun'
    BY <1>1, <1>2, <1>4 DEF PoolInvariant, AllBegun
  <2>3. r.at # "gone" /\ r.at \in Leased \ Beginning /\ r.fd # None
    BY <1>2, <1>4, NameFacts
  <2> QED
    BY <1>1, <1>2, <1>4, <2>1, <2>2, <2>3 DEF Takes
<1>8. /\ children' \subseteq Attempts
      /\ children' = {} \/ (Valid /\ \A a \in children' : content[path] = a)
      /\ begun' \subseteq Attempts /\ excused' \in BOOLEAN
      /\ decision' \in {"none", "ready", "refused", "active", "reconcile"}
      /\ decision' = "ready" => children' = {}
  BY <1>1, <1>2, OfController DEF PoolInvariant, PoolTypeOK, WritersAreMarked
<1>9. OwnOK(c)'
  BY <1>2, <1>6 DEF OwnOK
<1> QED
  BY <1>1, <1>2, <1>4, <1>7, <1>8, <1>9, TurnStill

LEMMA TakeLeaseStep ==
    ASSUME PoolInvariant, NEW c \in Controllers, TakeLease(c)
    PROVE  PoolInvariant'
<1>1. /\ proc[c].at = "gone" /\ lock = None /\ Valid /\ lock' = c
      /\ proc' = [proc EXCEPT ![c] = [Gone EXCEPT !.at = "leased", !.fd = path]]
      /\ UNCHANGED pool /\ children' = children /\ decision' = decision /\ receipts' = receipts
      /\ begun' = begun /\ excused' = excused
  BY DEF TakeLease, history, Free
<1>2. /\ c \in Processes /\ PoolTypeOK /\ c \notin Operators /\ path \in Files
      /\ "leased" \in Leased \ Beginning /\ "leased" \in Phases
  BY <1>1, PhaseFacts, OfController DEF PoolTypeOK, Valid
<1>3. PICK r \in Process :
         /\ proc' = [proc EXCEPT ![c] = r]
         /\ r.at = "leased" /\ r.fd = path /\ r.record = None
  <2> DEFINE q == [Gone EXCEPT !.at = "leased", !.fd = path]
  <2>1. q \in Process
    BY <1>2, GoneIsOutside, Zenon DEF Process, Phases
  <2>2. q.at = "leased" /\ q.fd = path /\ q.record = None
    BY SMT DEF Gone
  <2> QED
    BY <1>1, <2>1, <2>2
<1>4. proc'[c] = r
  BY <1>2, <1>3 DEF PoolTypeOK
<1>5. ControllerOK(c)'
  BY <1>3, <1>4, SMT DEF ControllerOK, Beginning
<1>6. Takes(c, r)
  <2>1. ASSUME NEW o \in Operators \ {c}, proc[o].at = "attested"
        PROVE  proc[o].record \notin children'
    BY <1>1, <2>1, SMT DEF PoolInvariant, OwnOK, Processes, OperatorOK
  <2>2. r.at # "gone" /\ r.at \in Leased \ Beginning /\ r.fd # None /\ r.record \notin Attempts
    BY <1>2, <1>3, NameFacts
  <2> QED
    BY <1>1, <1>2, <1>3, <2>1, <2>2 DEF Takes
<1>7. /\ children' \subseteq Attempts /\ \A a \in children' : content[path] = a
      /\ begun' \subseteq Attempts /\ excused' \in BOOLEAN
      /\ decision' \in {"none", "ready", "refused", "active", "reconcile"}
      /\ decision' = "ready" => children' = {}
  BY <1>1, <1>2, OfController DEF PoolTypeOK
<1>8. OwnOK(c)' /\ content[r.fd] # "none"
  BY <1>1, <1>2, <1>3, <1>5 DEF OwnOK, PoolInvariant, Descriptors, Valid
<1> QED
  BY <1>1, <1>2, <1>3, <1>6, <1>7, <1>8, TurnStill
-----------------------------------------------------------------------------
\* Leaving, and what is done outside.

LEMMA GoneOK ==
    ASSUME NEW p \in Processes, proc'[p].at = "gone"
    PROVE  OwnOK(p)'
<1>1. ControllerOK(p)'
  BY SMT DEF ControllerOK, Beginning
<1>2. proc'[p].at \notin Initing
  BY SMT DEF Initing, Initializing
<1>3. OperatorOK(p)'
  BY <1>2, SMT DEF OperatorOK
<1>4. InitOK(p)'
  BY SMT DEF InitOK
<1> QED
  BY <1>1, <1>3, <1>4 DEF OwnOK

\* A process that has the lock leaves and takes it along.
LEMMA LeaverTakes ==
    ASSUME PoolInvariant, NEW p \in Processes, proc[p].at \notin Outside, Leave(p),
           children' = children, begun' = begun
    PROVE  Takes(p, Gone) /\ OwnOK(p)' /\ proc'[p] = Gone /\ lock = p
<1>1. lock = p /\ PoolTypeOK
  BY DEF PoolInvariant, Exclusive
<1>2. proc' = [proc EXCEPT ![p] = Gone] /\ lock' = None /\ proc'[p] = Gone
  BY <1>1 DEF Leave, PoolTypeOK
<1>3. /\ Gone \in Process /\ Gone.at = "gone" /\ Gone.fd = None /\ Gone.record = None
      /\ "gone" \notin Leased \cup Initing \cup Recovering \cup {"state", "written"} \cup Beginning
  BY GoneIsOutside, PhaseFacts
<1>4. Takes(p, Gone)
  BY <1>2, <1>3, Insider
<1>5. OwnOK(p)'
  BY <1>2, <1>3, GoneOK
<1> QED
  BY <1>1, <1>2, <1>4, <1>5

LEMMA InsiderLeaves ==
    ASSUME PoolInvariant, NEW p \in Processes, proc[p].at \notin Outside, Leave(p),
           UNCHANGED pool, children' = children, decision' = decision, begun' = begun,
           excused' \in BOOLEAN, excused => excused',
           p \in Operators /\ InInit(p) => excused' \/ Valid \/ Empty
    PROVE  PoolInvariant'
<1>1. Takes(p, Gone) /\ OwnOK(p)' /\ Gone \in Process /\ Gone.fd = None
  BY LeaverTakes, GoneIsOutside
<1>2. /\ children' \subseteq Attempts
      /\ children' = {} \/ (Valid /\ \A a \in children' : content[path] = a)
      /\ begun' \subseteq Attempts
      /\ decision' \in {"none", "ready", "refused", "active", "reconcile"}
      /\ decision' = "ready" => children' = {}
  BY DEF PoolInvariant, PoolTypeOK, WritersAreMarked, ReadyIsTrue
<1> QED
  BY <1>1, <1>2, TurnStill

LEMMA WriterLeaves ==
    ASSUME PoolInvariant, NEW p \in Processes, proc[p].at \notin Outside, Leave(p),
           NEW record \in Records, proc[p].fd \in Files, Put(p, record),
           record \in Attempts => record \in begun,
           proc[p].fd = path => children = {},
           marker' = marker, path' = path, children' = children, decision' = decision,
           begun' = begun, excused' \in BOOLEAN, excused => excused',
           p \in Operators /\ InInit(p) => excused'
    PROVE  PoolInvariant'
<1>1. Takes(p, Gone) /\ OwnOK(p)' /\ Gone \in Process /\ Gone.fd = None
  BY LeaverTakes, GoneIsOutside
<1>2. /\ decision' \in {"none", "ready", "refused", "active", "reconcile"}
      /\ decision' = "ready" => children = {}
  BY DEF PoolInvariant, PoolTypeOK, ReadyIsTrue
<1> QED
  BY <1>1, <1>2, TurnWrite

\* A process outside the lock stays there.
LEMMA OutsideTurn ==
    ASSUME PoolInvariant, NEW p \in Processes, proc[p].at \in Outside, NEW r \in Process,
           proc' = [proc EXCEPT ![p] = r], r.at \in Outside,
           p \in Controllers => r.at = "gone",
           r.at = "gone" => r.fd = None,
           r.fd \in {None, proc[p].fd},
           r.record \in Attempts => r.record \in begun,
           r.at # "gone" => r.record \in Records,
           r.at = "attested" =>
              /\ r.record \notin children
              /\ \A c \in Controllers : proc[c].at \in Beginning => proc[c].record # r.record,
           UNCHANGED <<pool, lock, children, decision, receipts, history>>
    PROVE  PoolInvariant'
<1>1. /\ PoolTypeOK /\ Exclusive /\ Descriptors /\ AllBegun /\ \A q \in Processes : OwnOK(q)
      /\ WritersAreMarked /\ ReadyIsTrue /\ InitLeavesAllOrNothing
  BY DEF PoolInvariant
<1>2. /\ marker' = marker /\ path' = path /\ content' = content /\ lock' = lock
      /\ children' = children /\ decision' = decision /\ receipts' = receipts
      /\ begun' = begun /\ excused' = excused
  BY DEF pool, history
<1>3. /\ proc' \in [Processes -> Process] /\ proc'[p] = r
      /\ \A q \in Processes : q # p => proc'[q] = proc[q]
  BY <1>1, SMT DEF PoolTypeOK
<1>4. Valid' = Valid /\ Empty' = Empty
  BY <1>2 DEF Valid, Empty
<1>5. PoolTypeOK'
  <2>1. \A c \in Controllers : proc'[c].at \in {"gone"} \cup Leased
    BY <1>1, <1>3, SMT DEF PoolTypeOK, Processes
  <2>2. \A o \in Operators : proc'[o].at \in Outside \cup Initing \cup Recovering
    BY <1>1, <1>3, SMT DEF PoolTypeOK, Processes
  <2> QED
    BY <1>1, <1>2, <1>3, <2>1, <2>2 DEF PoolTypeOK
<1>6. Exclusive'
  BY <1>1, <1>2, <1>3 DEF Exclusive
<1>7. Descriptors'
  <2>1. r.at \notin Leased \cup Recovering \cup {"state", "written"}
    BY SMT DEF Outside, Leased, Beginning, Recovering
  <2>2. r.fd # None => content[r.fd] # "none"
    BY <1>1 DEF Descriptors
  <2> QED
    BY <1>1, <1>2, <1>3, <2>1, <2>2, SMT DEF Descriptors
<1>8. AllBegun'
  BY <1>1, <1>2, <1>3 DEF AllBegun
<1>9. ASSUME NEW c \in Controllers PROVE ControllerOK(c)'
  <2>1. CASE c = p
    <3>1. proc'[c].at = "gone"
      BY <1>3, <2>1
    <3> QED
      BY <3>1, SMT DEF ControllerOK, Beginning
  <2>2. CASE c # p
    <3>1. proc'[c] = proc[c] /\ ControllerOK(c)
      BY <1>1, <1>3, <2>2 DEF OwnOK, Processes
    <3> QED
      BY <1>2, <1>4, <3>1, SMT DEF ControllerOK
  <2> QED
    BY <2>1, <2>2
<1>10. \A c \in Controllers : proc'[c].at \in Beginning =>
          proc'[c] = proc[c] /\ proc[c].at \in Beginning
  BY <1>3, SMT DEF Processes, Beginning
<1>11. ASSUME NEW o \in Operators PROVE OperatorOK(o)' /\ (~excused' => InitOK(o)')
  <2>1. CASE o = p
    <3>1. /\ proc'[o] = r /\ r.at \in {"gone", "inspected", "attested"} /\ r.at \notin Initing
      BY <1>3, <2>1, Kinds, SMT DEF Outside
    <3>2. InitOK(o)'
      BY <3>1, SMT DEF InitOK
    <3>3. OperatorOK(o)'
      BY <1>2, <1>10, <3>1, SMT DEF OperatorOK
    <3> QED
      BY <3>2, <3>3
  <2>2. CASE o # p
    <3>1. proc'[o] = proc[o] /\ OperatorOK(o) /\ (~excused => InitOK(o))
      BY <1>1, <1>3, <2>2 DEF OwnOK, Processes
    <3>2. OperatorOK(o)'
      BY <1>2, <1>10, <3>1, SMT DEF OperatorOK
    <3>3. InitOK(o) => InitOK(o)'
      BY <1>2, <1>4, <3>1, SMT DEF InitOK
    <3> QED
      BY <1>2, <3>1, <3>2, <3>3
  <2> QED
    BY <2>1, <2>2
<1>12. WritersAreMarked' /\ ReadyIsTrue'
  BY <1>1, <1>2, <1>4 DEF WritersAreMarked, ReadyIsTrue
<1>13. InitLeavesAllOrNothing'
  <2>1. \A o \in Operators : InInit(o) => InInit(o)'
    <3>1. r.at \notin Initing /\ proc[p].at \notin Initing
      BY Kinds
    <3> QED
      BY <1>3, <3>1 DEF InInit, Initing, Processes
  <2> QED
    BY <1>1, <1>2, <1>4, <2>1 DEF InitLeavesAllOrNothing
<1>14. \A q \in Processes : OwnOK(q)'
  BY <1>9, <1>11 DEF OwnOK
<1> QED
  BY <1>5, <1>6, <1>7, <1>8, <1>12, <1>13, <1>14 DEF PoolInvariant
-----------------------------------------------------------------------------
\* The writes of the record.

\* Whoever is about to write has the file, and nobody writes the pool if it is the
\* pool's.
LEMMA Writer ==
    ASSUME PoolInvariant, NEW p \in Processes, proc[p].at \in {"marking", "zeroing"}
    PROVE  /\ PoolTypeOK /\ proc[p].at \notin Outside /\ ~InInit(p)
           /\ proc[p].fd \in Files /\ content[proc[p].fd] # "none"
           /\ proc[p].fd = path => children = {}
           /\ proc[p].record \in Records
           /\ proc[p].record \in Attempts => proc[p].record \in begun
<1>1. PoolTypeOK /\ Descriptors /\ AllBegun /\ WritersAreMarked /\ OwnOK(p)
  BY DEF PoolInvariant
<1>2. /\ proc[p].at \notin Outside /\ proc[p].at \in Leased \cup Recovering
      /\ ~InInit(p)
  BY SMT DEF Outside, Leased, Beginning, Recovering, InInit, Initializing
<1>3. proc[p].fd \in Files /\ content[proc[p].fd] # "none"
  BY <1>1, <1>2, SMT DEF Descriptors, PoolTypeOK, Process
<1>4. p \in Operators => proc[p].at = "zeroing"
  <2>1. "marking" \notin Outside \cup Initing \cup Recovering
    BY SMT DEF Outside, Initing, Initializing, Recovering
  <2> QED
    BY <1>1, <2>1 DEF PoolTypeOK
<1>5. proc[p].record \in Records
  <2>1. CASE p \in Controllers
    BY <1>1, <2>1, NameFacts, SMT DEF OwnOK, ControllerOK, Beginning
  <2>2. CASE p \in Operators
    BY <1>1, <1>4, <2>2, SMT DEF OwnOK, OperatorOK
  <2> QED
    BY <2>1, <2>2 DEF Processes
<1>6. proc[p].fd = path => children = {}
  <2> SUFFICES ASSUME proc[p].fd = path, NEW a \in children PROVE FALSE
    OBVIOUS
  <2>1. content[path] = a /\ a \in Attempts
    BY <1>1 DEF WritersAreMarked, PoolTypeOK
  <2>2. CASE p \in Controllers
    <3>1. ControllerOK(p)
      BY <1>1, <2>2 DEF OwnOK
    <3>2. /\ proc[p].at = "marking" => content[path] = "idle"
          /\ proc[p].at = "zeroing" => content[path] = proc[p].record
                                       /\ proc[p].record \notin children
      BY <3>1, SMT DEF ControllerOK
    <3> QED
      BY <2>1, <3>2, NameFacts
  <2>3. CASE p \in Operators
    <3>1. content[path] = proc[p].record /\ proc[p].record \notin children
      BY <1>1, <1>4, <2>3, SMT DEF OwnOK, OperatorOK
    <3> QED
      BY <2>1, <3>1
  <2> QED
    BY <2>2, <2>3 DEF Processes
<1> QED
  BY <1>1, <1>2, <1>3, <1>5, <1>6 DEF AllBegun

LEMMA MarkActiveStep ==
    ASSUME PoolInvariant, NEW c \in Controllers, MarkActive(c)
    PROVE  PoolInvariant'
<1>1. /\ proc[c].at = "marking" /\ Put(c, proc[c].record) /\ Go(c, "marked")
      /\ marker' = marker /\ path' = path /\ lock' = lock /\ children' = children
      /\ decision' = decision /\ receipts' = receipts
      /\ begun' = begun /\ excused' = excused
  BY DEF MarkActive, history
<1>2. /\ c \in Processes /\ lock = c /\ PoolTypeOK /\ proc[c].at \notin Outside
      /\ proc[c].at \in Beginning /\ proc[c].fd \in Files /\ c \notin Operators
      /\ "marked" \in Phases /\ "marked" \in Leased /\ "marked" # "gone"
  BY <1>1, PhaseFacts, OfController
<1>3. PICK r \in Process :
         /\ proc' = [proc EXCEPT ![c] = r]
         /\ r.at = "marked" /\ r.fd = proc[c].fd /\ r.record = proc[c].record
  BY <1>1, <1>2, Goes
<1>4. Takes(c, r)
  BY <1>1, <1>2, <1>3, NameFacts, Insider
<1>5. /\ proc[c].record \in Records
      /\ proc[c].fd = path => children = {}
      /\ proc[c].record \in Attempts => proc[c].record \in begun
  BY <1>1, <1>2, Writer
<1>6. OwnOK(c)'
  <2>1. proc[c].record \in Attempts \ children
    BY <1>1, OfController, SMT DEF ControllerOK, Beginning
  <2>2. proc'[c] = r /\ content'[r.fd] = r.record
    BY <1>1, <1>2, <1>3 DEF PoolTypeOK, Put
  <2>3. ControllerOK(c)'
    BY <1>1, <1>3, <2>1, <2>2, SMT DEF ControllerOK, Beginning
  <2> QED
    BY <1>2, <2>3 DEF OwnOK
<1>7. /\ decision' \in {"none", "ready", "refused", "active", "reconcile"}
      /\ decision' = "ready" => children = {}
      /\ excused' \in BOOLEAN /\ (excused => excused')
      /\ r.fd \in {None, proc[c].fd}
  BY <1>1, <1>2, <1>3, OfController DEF PoolTypeOK
<1>8. marker' = marker /\ path' = path /\ children' = children /\ begun' = begun
  BY <1>1
<1>9. Put(c, proc[c].record) /\ c \in Processes /\ c \notin Operators /\ proc[c].fd \in Files
  BY <1>1, <1>2
<1> QED
  BY <1>4, <1>5, <1>6, <1>7, <1>8, <1>9, TurnWrite

\* What a torn write leaves in the file.
LEMMA TornIs ==
    ASSUME PoolInvariant, NEW p \in Processes, proc[p].at \in {"marking", "zeroing"},
           NEW new \in {"idle", proc[p].record}, NEW r \in Torn(p, new), Put(p, r)
    PROVE  content' = content \/ (r \in Records /\ (r \in Attempts => r \in begun))
<1>1. /\ content \in [Files -> {"none", "short"} \cup Records] /\ proc[p].fd \in Files
      /\ proc[p].record \in Records
      /\ proc[p].record \in Attempts => proc[p].record \in begun
  BY Writer DEF PoolTypeOK
<1>2. CASE r = content[proc[p].fd]
  BY <1>1, <1>2 DEF Put
<1>3. CASE r \in {"idle", "torn", proc[p].record}
  BY <1>1, <1>3, NameFacts
<1> QED
  BY <1>2, <1>3 DEF Torn

LEMMA MarkFailsStep ==
    ASSUME PoolInvariant, NEW c \in Controllers, MarkFails(c)
    PROVE  PoolInvariant'
<1>1. PICK r \in Torn(c, proc[c].record) : Put(c, r)
  BY DEF MarkFails
<1>2. /\ proc[c].at = "marking" /\ Go(c, "leased")
      /\ marker' = marker /\ path' = path /\ lock' = lock /\ children' = children
      /\ decision' = decision /\ receipts' = receipts
      /\ begun' = begun /\ excused' = excused /\ UNCHANGED history
  BY DEF MarkFails, history
<1>3. /\ c \in Processes /\ lock = c /\ PoolTypeOK /\ proc[c].at \notin Outside
      /\ proc[c].at \in Leased /\ proc[c].fd \in Files /\ c \notin Operators
      /\ "leased" \in Phases /\ "leased" \in Leased \ Beginning /\ "leased" # "gone"
  BY <1>2, PhaseFacts, OfController
<1>4. /\ decision' \in {"none", "ready", "refused", "active", "reconcile"}
      /\ decision' = "ready" => children = {}
      /\ excused' \in BOOLEAN
  BY <1>2, <1>3, OfController DEF PoolTypeOK
<1>5. CASE content' = content
  <2>1. UNCHANGED <<pool, lock, children, history>>
    <3>1. UNCHANGED pool
      BY <1>2, <1>5 DEF pool
    <3> QED
      BY <1>2, <3>1
  <2>2. "leased" \in Leased /\ "leased" \notin Beginning
    BY <1>3
  <2> QED
    BY <1>2, <1>3, <1>4, <2>1, <2>2, ControllerGoes
<1>6. CASE r \in Records /\ (r \in Attempts => r \in begun)
  <2>1. PICK q \in Process :
           /\ proc' = [proc EXCEPT ![c] = q]
           /\ q.at = "leased" /\ q.fd = proc[c].fd /\ q.record = proc[c].record
    BY <1>2, <1>3, Goes
  <2>2. Takes(c, q)
    BY <1>2, <1>3, <2>1, NameFacts, Insider
  <2>3. proc[c].fd = path => children = {}
    BY <1>2, <1>3, Writer
  <2>4. OwnOK(c)'
    <3>1. proc'[c] = q
      BY <1>3, <2>1 DEF PoolTypeOK
    <3>2. ControllerOK(c)'
      BY <2>1, <3>1, SMT DEF ControllerOK, Beginning
    <3> QED
      BY <1>3, <3>2 DEF OwnOK
  <2> QED
    BY <1>1, <1>2, <1>3, <1>4, <1>6, <2>1, <2>2, <2>3, <2>4, TurnWrite
<1> QED
  BY <1>1, <1>2, <1>3, <1>5, <1>6, TornIs

LEMMA OfProcess ==
    ASSUME PoolInvariant, NEW p \in Processes
    PROVE  /\ PoolTypeOK /\ proc \in [Processes -> Process] /\ proc[p] \in Process
           /\ p \in Controllers \/ p \in Operators
           /\ p \in Controllers => p \notin Operators /\ proc[p].at \in {"gone"} \cup Leased
           /\ p \in Operators => proc[p].at \in Outside \cup Initing \cup Recovering
           /\ proc[p].at \notin Outside <=> lock = p
           /\ decision \in {"none", "ready", "refused", "active", "reconcile"}
           /\ decision = "ready" => children = {}
           /\ excused \in BOOLEAN
BY NameFacts DEF PoolInvariant, PoolTypeOK, Exclusive, ReadyIsTrue, Processes

LEMMA ZeroStep ==
    ASSUME PoolInvariant, NEW p \in Processes, Zero(p)
    PROVE  PoolInvariant'
<1>1. /\ proc[p].at = "zeroing" /\ Put(p, "idle") /\ Go(p, "zeroed")
      /\ marker' = marker /\ path' = path /\ lock' = lock /\ children' = children
      /\ decision' = decision /\ begun' = begun /\ excused' = excused
  BY DEF Zero, history
<1>2. /\ PoolTypeOK /\ proc[p].at \notin Outside /\ ~InInit(p) /\ proc[p].fd \in Files
      /\ lock = p /\ proc \in [Processes -> Process]
      /\ "zeroed" \in Phases /\ "zeroed" \in Leased \cap Recovering /\ "zeroed" # "gone"
      /\ "zeroed" \notin Beginning /\ "idle" \in Records /\ "idle" \notin Attempts
  BY <1>1, Writer, OfProcess, PhaseFacts, NameFacts
<1>3. proc[p].fd = path => children = {}
  BY <1>1, Writer
<1>4. PICK r \in Process :
         /\ proc' = [proc EXCEPT ![p] = r]
         /\ r.at = "zeroed" /\ r.fd = proc[p].fd /\ r.record = proc[p].record
  BY <1>1, <1>2, Goes
<1>5. Takes(p, r)
  BY <1>1, <1>2, <1>4, NameFacts, Insider
<1>6. OwnOK(p)'
  <2>1. proc'[p] = r /\ content'[r.fd] = "idle"
    BY <1>1, <1>2, <1>4 DEF PoolTypeOK, Put
  <2>2. ControllerOK(p)'
    BY <1>4, <2>1, SMT DEF ControllerOK, Beginning
  <2>3. OperatorOK(p)'
    BY <1>4, <2>1, SMT DEF OperatorOK, Initing, Initializing
  <2>4. InitOK(p)'
    BY <1>4, <2>1, SMT DEF InitOK
  <2> QED
    BY <2>2, <2>3, <2>4 DEF OwnOK
<1>7. /\ decision' \in {"none", "ready", "refused", "active", "reconcile"}
      /\ decision' = "ready" => children = {}
      /\ excused' \in BOOLEAN
      /\ r.fd \in {None, proc[p].fd}
  BY <1>1, <1>4, OfProcess
<1> QED
  BY <1>1, <1>2, <1>3, <1>5, <1>6, <1>7, TurnWrite

\* A write that fails or is cut off, after which the process leaves.
LEMMA TornLeaves ==
    ASSUME PoolInvariant, NEW p \in Processes, proc[p].at \in {"marking", "zeroing"}, Leave(p),
           NEW new \in {"idle", proc[p].record}, NEW record \in Torn(p, new), Put(p, record),
           marker' = marker, path' = path, children' = children, decision' = decision,
           begun' = begun, excused' \in BOOLEAN, excused => excused'
    PROVE  PoolInvariant'
<1>1. /\ proc[p].at \notin Outside /\ ~InInit(p) /\ proc[p].fd \in Files
  BY Writer
<1>2. proc[p].fd = path => children = {}
  BY Writer
<1>3. CASE content' = content
  <2>1. UNCHANGED pool
    BY <1>3 DEF pool
  <2> QED
    BY <1>1, <2>1, InsiderLeaves
<1>4. CASE record \in Records /\ (record \in Attempts => record \in begun)
  BY <1>1, <1>2, <1>4, WriterLeaves
<1> QED
  BY <1>3, <1>4, TornIs

LEMMA ZeroFailsStep ==
    ASSUME PoolInvariant, NEW p \in Processes, ZeroFails(p)
    PROVE  PoolInvariant'
<1>1. PICK record \in Torn(p, "idle") : Put(p, record)
  BY DEF ZeroFails
<1>2. /\ proc[p].at = "zeroing"
      /\ marker' = marker /\ path' = path /\ children' = children
      /\ begun' = begun /\ excused' = excused /\ UNCHANGED history /\ excused \in BOOLEAN
  BY OfProcess DEF ZeroFails, history
<1>3. CASE p \in Operators
  <2>1. Leave(p) /\ decision' = decision
    BY <1>3, OfProcess DEF ZeroFails
  <2> QED
    BY <1>1, <1>2, <2>1, TornLeaves
<1>4. CASE p \in Controllers
  <2>1. Cleared(p, "refused") /\ lock' = lock
    BY <1>4 DEF ZeroFails
  <2>2. /\ proc[p].at \in Leased /\ "leased" \in Leased \ Beginning /\ "leased" # "gone"
        /\ proc[p].at \notin Outside /\ lock = p /\ proc[p].fd \in Files /\ p \notin Operators
    BY <1>2, <1>4, PhaseFacts, OfController
  <2>3. CASE content' = content
    <3>1. UNCHANGED <<pool, lock, children, history>>
      <4>1. UNCHANGED pool
        BY <1>2, <2>3 DEF pool
      <4> QED
        BY <1>2, <2>1, <4>1
    <3> QED
      BY <1>4, <2>1, <2>2, <3>1, ClearedTurn
  <2>4. CASE record \in Records /\ (record \in Attempts => record \in begun)
    <3>1. PICK q \in Process :
             /\ proc' = [proc EXCEPT ![p] = q]
             /\ q.at = "leased" /\ q.fd = proc[p].fd /\ q.record = proc[p].record
      BY <1>4, <2>1, <2>2, Clears
    <3>2. decision' \in {decision, "refused"}
      BY <1>4, <2>1, <2>2, Clears
    <3>3. Takes(p, q)
      BY <1>2, <2>1, <2>2, <3>1, NameFacts, Insider
    <3>4. proc[p].fd = path => children = {}
      BY <1>2, Writer
    <3>5. OwnOK(p)'
      <4>1. proc'[p] = q
        BY <3>1, OfProcess
      <4>2. ControllerOK(p)'
        BY <3>1, <4>1, SMT DEF ControllerOK, Beginning
      <4> QED
        BY <2>2, <4>2 DEF OwnOK
    <3>6. /\ decision' \in {"none", "ready", "refused", "active", "reconcile"}
          /\ decision' = "ready" => children = {}
      BY <3>2, OfProcess
    <3> QED
      BY <1>1, <1>2, <2>2, <2>4, <3>1, <3>3, <3>4, <3>5, <3>6, TurnWrite
  <2> QED
    BY <1>1, <1>2, <2>3, <2>4, TornIs
<1> QED
  BY <1>3, <1>4, OfProcess

LEMMA KillStep ==
    ASSUME PoolInvariant, NEW p \in Processes, Kill(p)
    PROVE  PoolInvariant'
<1>1. /\ proc[p].at # "gone" /\ Leave(p)
      /\ marker' = marker /\ path' = path /\ children' = children /\ decision' = decision
      /\ begun' = begun /\ excused' = (excused \/ InInit(p))
  BY DEF Kill
<1>2. excused' \in BOOLEAN /\ (excused => excused') /\ (InInit(p) => excused')
  BY <1>1, OfProcess DEF InInit
<1>3. CASE proc[p].at = "marking"
  <2>1. PICK record \in Torn(p, proc[p].record) : Put(p, record)
    BY <1>3, SMT DEF Kill, Put
  <2> QED
    BY <1>1, <1>2, <1>3, <2>1, TornLeaves
<1>4. CASE proc[p].at = "zeroing"
  <2>1. PICK record \in Torn(p, "idle") : Put(p, record)
    BY <1>4, SMT DEF Kill, Put
  <2> QED
    BY <1>1, <1>2, <1>4, <2>1, TornLeaves
<1>5. CASE proc[p].at \notin {"marking", "zeroing"}
  <2>1. UNCHANGED pool
    <3>1. content' = content
      BY <1>5, SMT DEF Kill
    <3> QED
      BY <1>1, <3>1 DEF pool
  <2>2. CASE proc[p].at \notin Outside
    BY <1>1, <1>2, <2>1, <2>2, InsiderLeaves
  <2>3. CASE proc[p].at \in Outside
    <3>1. ~InInit(p) /\ proc[p].at # "matched"
      BY <2>3, PhaseFacts, Kinds DEF InInit, Initing
    <3>2. receipts' = receipts /\ excused' = excused
      BY <1>1, <3>1, OfProcess, SMT DEF Kill
    <3>3. lock' = lock /\ proc' = [proc EXCEPT ![p] = Gone]
      BY <1>1, <2>3, OfProcess, SMT DEF Leave
    <3>4. UNCHANGED <<pool, lock, children, decision, receipts, history>>
      <4>1. UNCHANGED history
        BY <1>1, <3>2 DEF history
      <4> QED
        BY <1>1, <2>1, <3>2, <3>3, <4>1
    <3> QED
      BY <2>3, <3>3, <3>4, GoneIsOutside, NameFacts, PhaseFacts, OutsideTurn
  <2> QED
    BY <2>2, <2>3
<1> QED
  BY <1>3, <1>4, <1>5
-----------------------------------------------------------------------------
\* The operators: status and recover.

LEMMA OfOperator ==
    ASSUME PoolInvariant, NEW o \in Operators
    PROVE  /\ o \in Processes /\ o \notin Controllers
           /\ OperatorOK(o) /\ (~excused => InitOK(o))
           /\ proc[o].at = "gone" => proc[o].fd = None
           /\ proc[o].at \in Recovering \cup {"state", "written"} =>
                 proc[o].fd \in Files /\ content[proc[o].fd] # "none"
           /\ proc[o].fd \in Files \cup {None}
           /\ proc[o].fd # None => content[proc[o].fd] # "none"
           /\ proc[o].record \in Attempts => proc[o].record \in begun
<1>1. o \in Processes /\ o \notin Controllers
  BY NameFacts DEF Processes
<1>2. proc[o].fd \in Files \cup {None}
  BY <1>1, OfProcess, SMT DEF Process
<1> QED
  BY <1>1, <1>2 DEF PoolInvariant, OwnOK, Descriptors, AllBegun

\* What stays true of the pool while it is left alone.
LEMMA PoolFacts ==
    ASSUME PoolInvariant
    PROVE  /\ marker \in {"absent", "short", "whole"}
           /\ path \in Files \cup {None}
           /\ content \in [Files -> {"none", "short"} \cup Records]
           /\ children \subseteq Attempts /\ begun \subseteq Attempts /\ excused \in BOOLEAN
           /\ children = {} \/ (Valid /\ \A a \in children : content[path] = a)
           /\ Valid => /\ path \in Files
                       /\ content[path] \in Records
                       /\ content[path] \in Attempts => content[path] \in begun
           /\ path # None => content[path] # "none"
BY DEF PoolInvariant, PoolTypeOK, WritersAreMarked, Valid, Descriptors, AllBegun

LEMMA StatusStep ==
    ASSUME PoolInvariant, NEW o \in Operators, Status(o)
    PROVE  PoolInvariant'
<1>1. /\ proc[o].at = "gone" /\ Valid
      /\ UNCHANGED <<pool, lock, children, decision, receipts, history>>
  BY DEF Status
<1>2. /\ content[path] \in Records /\ (content[path] \in Attempts => content[path] \in begun)
      /\ o \in Processes /\ proc \in [Processes -> Process] /\ proc[o] \in Process
      /\ proc[o].at \in Outside /\ "inspected" \in Outside /\ "inspected" \in Phases
      /\ o \notin Controllers
  BY <1>1, PoolFacts, OfProcess, OfOperator, PhaseFacts
<1>3. PICK r \in Process : /\ r.at = "inspected" /\ r.fd = proc[o].fd
                           /\ r.record = content[path] /\ proc' = [proc EXCEPT ![o] = r]
  <2> DEFINE q == [proc[o] EXCEPT !.at = "inspected", !.record = content[path]]
  <2>1. q \in Process
    BY <1>2, Zenon DEF Process, Phases
  <2>2. q.at = "inspected" /\ q.fd = proc[o].fd /\ q.record = content[path]
    BY <1>2, SMT DEF Process
  <2>3. proc' = [proc EXCEPT ![o] = q]
    BY <1>2 DEF Status
  <2> QED
    BY <2>1, <2>2, <2>3
<1> QED
  BY <1>1, <1>2, <1>3, OutsideTurn

LEMMA AttestStep ==
    ASSUME PoolInvariant, NEW o \in Operators, Attest(o)
    PROVE  PoolInvariant'
<1>1. /\ proc[o].at = "inspected" /\ Go(o, "attested")
      /\ children = {} /\ \A c \in Controllers : proc[c].at = "gone"
      /\ UNCHANGED <<pool, lock, children, decision, receipts, history>>
  BY DEF Attest
<1>2. /\ o \in Processes /\ PoolTypeOK /\ o \notin Controllers
      /\ proc[o].at \in Outside /\ "attested" \in Outside /\ "attested" \in Phases
      /\ "gone" \notin Beginning
  BY <1>1, OfProcess, OfOperator, PhaseFacts
<1>3. PICK r \in Process :
         /\ proc' = [proc EXCEPT ![o] = r]
         /\ r.at = "attested" /\ r.fd = proc[o].fd /\ r.record = proc[o].record
  BY <1>1, <1>2, Goes
<1>4. proc[o].record \in Records /\ (proc[o].record \in Attempts => proc[o].record \in begun)
  BY <1>1, OfOperator, SMT DEF OperatorOK
<1>5. /\ r.record \notin children
      /\ \A c \in Controllers : proc[c].at \in Beginning => proc[c].record # r.record
  BY <1>1, <1>2
<1> QED
  BY <1>1, <1>2, <1>3, <1>4, <1>5, OutsideTurn

\* A step of an operator who has the lock and leaves the pool as it is.
LEMMA OperatorGoes ==
    ASSUME PoolInvariant, NEW o \in Operators, proc[o].at \notin Outside,
           NEW phase \in Initing \cup Recovering, Go(o, phase),
           proc[o].at \in Initing => phase \in Initing,
           phase \in Recovering => proc[o].at \in Recovering,
           phase \notin {"state", "written"},
           UNCHANGED <<pool, lock, children, decision, history>>,
           OwnOK(o)'
    PROVE  PoolInvariant'
<1>1. /\ o \in Processes /\ PoolTypeOK /\ o \notin Controllers /\ lock = o /\ phase \in Phases
      /\ phase # "gone" /\ (phase \notin Leased \/ phase \in Recovering)
      /\ phase \notin Beginning
  <2>1. phase \notin Leased \/ phase \in Recovering
    BY SMT DEF Leased, Beginning, Recovering, Initing, Initializing
  <2>2. phase \notin Beginning /\ phase # "gone"
    BY SMT DEF Beginning, Recovering, Initing, Initializing
  <2> QED
    BY <2>1, <2>2, OfProcess, OfOperator, PhaseFacts
<1>2. PICK r \in Process :
         /\ proc' = [proc EXCEPT ![o] = r]
         /\ r.at = phase /\ r.fd = proc[o].fd /\ r.record = proc[o].record
  BY <1>1, Goes
<1>3. /\ UNCHANGED pool /\ begun' = begun /\ excused' = excused
      /\ lock' = lock /\ children' = children /\ decision' = decision
  BY DEF history
<1>4. r.at \in Leased \cup Recovering \cup {"state", "written"} => r.fd # None
  BY <1>1, <1>2, OfOperator, NameFacts
<1>5. Takes(o, r)
  BY <1>1, <1>2, <1>3, <1>4, Insider
<1>6. ~(o \in Operators /\ InInit(o) /\ r.at \notin Initing)
  BY <1>2 DEF InInit, Initing
<1>7. r.fd # None => content[r.fd] # "none"
  BY <1>2, OfOperator
<1> QED
  BY <1>1, <1>3, <1>5, <1>6, <1>7, PoolFacts, OfProcess, TurnStill

LEMMA WriteReceiptStep ==
    ASSUME PoolInvariant, NEW o \in Operators, WriteReceipt(o)
    PROVE  PoolInvariant'
<1>1. /\ proc[o].at = "matched"
      /\ UNCHANGED pool /\ children' = children /\ decision' = decision /\ UNCHANGED history
      /\ begun' = begun /\ excused' = excused
  BY DEF WriteReceipt, history
<1>2. /\ o \in Processes /\ o \notin Controllers /\ excused \in BOOLEAN
      /\ proc[o].at \in Recovering /\ proc[o].at \notin Outside \cup Initing
      /\ "receipted" \in Recovering /\ PoolTypeOK /\ OperatorOK(o)
  BY <1>1, OfProcess, OfOperator, PhaseFacts, Kinds
<1>3. CASE receipts' = receipts \cup {proc[o].record} /\ Go(o, "receipted") /\ lock' = lock
  <2>1. proc'[o] = [proc[o] EXCEPT !.at = "receipted"]
    BY <1>2, <1>3, OfProcess DEF Go
  <2>2. proc'[o].at = "receipted" /\ proc'[o].fd = proc[o].fd /\ proc'[o].record = proc[o].record
    BY <1>2, <2>1, OfProcess, SMT DEF Process
  <2>3. \A c \in Controllers : proc'[c] = proc[c]
    BY <1>2, <1>3, OfProcess DEF Go, Processes
  <2>4. OperatorOK(o)'
    BY <1>1, <1>2, <1>3, <2>2, <2>3, SMT DEF OperatorOK, pool, Initing, Initializing
  <2>5. InitOK(o)'
    BY <2>2, SMT DEF InitOK
  <2>6. OwnOK(o)'
    BY <1>2, <2>4, <2>5 DEF OwnOK
  <2>7. UNCHANGED <<pool, lock, children, decision, history>>
    BY <1>1, <1>3
  <2> QED
    BY <1>2, <1>3, <2>6, <2>7, OperatorGoes
<1>4. CASE Leave(o)
  BY <1>1, <1>2, <1>4, InsiderLeaves DEF InInit, Initing
<1> QED
  BY <1>3, <1>4 DEF WriteReceipt

LEMMA VerifyRecoverStep ==
    ASSUME PoolInvariant, NEW o \in Operators, VerifyRecover(o)
    PROVE  PoolInvariant'
<1>1. /\ proc[o].at = "receipted" /\ receipts' = receipts
      /\ UNCHANGED pool /\ children' = children /\ decision' = decision /\ UNCHANGED history
      /\ begun' = begun /\ excused' = excused
  BY DEF VerifyRecover, history
<1>2. /\ o \in Processes /\ o \notin Controllers /\ excused \in BOOLEAN
      /\ proc[o].at \in Recovering /\ proc[o].at \notin Outside \cup Initing
      /\ "zeroing" \in Recovering /\ PoolTypeOK /\ OperatorOK(o)
  BY <1>1, OfProcess, OfOperator, PhaseFacts, Kinds
<1>3. CASE Go(o, "zeroing") /\ lock' = lock
  <2>1. proc'[o] = [proc[o] EXCEPT !.at = "zeroing"]
    BY <1>2, <1>3, OfProcess DEF Go
  <2>2. proc'[o].at = "zeroing" /\ proc'[o].fd = proc[o].fd /\ proc'[o].record = proc[o].record
    BY <1>2, <2>1, OfProcess, SMT DEF Process
  <2>3. \A c \in Controllers : proc'[c] = proc[c]
    BY <1>2, <1>3, OfProcess DEF Go, Processes
  <2>4. OperatorOK(o)'
    BY <1>1, <1>2, <1>3, <2>2, <2>3, SMT DEF OperatorOK, pool, Initing, Initializing
  <2>5. InitOK(o)'
    BY <2>2, SMT DEF InitOK
  <2>6. OwnOK(o)'
    BY <1>2, <2>4, <2>5 DEF OwnOK
  <2>7. UNCHANGED <<pool, lock, children, decision, history>>
    BY <1>1, <1>3
  <2> QED
    BY <1>2, <1>3, <2>6, <2>7, OperatorGoes
<1>4. CASE Leave(o)
  BY <1>1, <1>2, <1>4, InsiderLeaves DEF InInit, Initing
<1> QED
  BY <1>3, <1>4 DEF VerifyRecover

LEMMA RecoverEndsStep ==
    ASSUME PoolInvariant, NEW o \in Operators, RecoverEnds(o)
    PROVE  PoolInvariant'
<1>1. /\ proc[o].at = "zeroed" /\ Leave(o)
      /\ UNCHANGED pool /\ children' = children /\ decision' = decision
      /\ begun' = begun /\ excused' = excused
  BY DEF RecoverEnds, history
<1>2. o \in Processes /\ excused \in BOOLEAN /\ proc[o].at \notin Outside \cup Initing
  BY <1>1, OfProcess, OfOperator, PhaseFacts, Kinds
<1> QED
  BY <1>1, <1>2, InsiderLeaves DEF InInit, Initing

LEMMA RecoverStep ==
    ASSUME PoolInvariant, NEW o \in Operators, Recover(o)
    PROVE  PoolInvariant'
<1>1. /\ proc[o].at = "attested" /\ lock = None /\ Valid
      /\ UNCHANGED <<pool, children, decision, receipts, history>>
      /\ UNCHANGED pool /\ children' = children /\ decision' = decision /\ receipts' = receipts
      /\ begun' = begun /\ excused' = excused
  BY DEF Recover, Free, history
<1>2. /\ o \in Processes /\ o \notin Controllers /\ PoolTypeOK /\ OperatorOK(o)
      /\ proc \in [Processes -> Process] /\ proc[o] \in Process /\ proc[o].at \in Outside
      /\ ~InInit(o) /\ "matched" \in Recovering \ (Leased \cup Initing)
      /\ "matched" \in Phases /\ path \in Files /\ content[path] \in Records
      /\ (content[path] \in Attempts => content[path] \in begun)
  <2>1. "matched" \notin Leased \cup Initing
    BY SMT DEF Leased, Initing, Initializing, Beginning
  <2>2. ~InInit(o)
    BY <1>1, SMT DEF InInit, Initializing
  <2> QED
    BY <1>1, <2>1, <2>2, OfProcess, OfOperator, PhaseFacts, PoolFacts
<1>3. CASE MatchExpected(o)
  <2>1. /\ lock' = o
        /\ proc' = [proc EXCEPT ![o] =
                       [proc[o] EXCEPT !.at = "matched", !.fd = path, !.record = content[path]]]
    BY <1>2, <1>3 DEF Recover
  <2>2. PICK r \in Process : /\ r.at = "matched" /\ r.fd = path
                             /\ r.record = content[path] /\ proc' = [proc EXCEPT ![o] = r]
    <3> DEFINE q == [proc[o] EXCEPT !.at = "matched", !.fd = path, !.record = content[path]]
    <3>1. q \in Process
      BY <1>2, Zenon DEF Process, Phases
    <3>2. q.at = "matched" /\ q.fd = path /\ q.record = content[path]
      BY <1>2, SMT DEF Process
    <3> QED
      BY <2>1, <3>1, <3>2
  <2>3. proc'[o] = r /\ \A c \in Controllers : proc'[c] = proc[c]
    BY <1>2, <2>2 DEF Processes
  <2>4. /\ proc[o].record \notin children /\ content[path] = proc[o].record
        /\ \A c \in Controllers : proc[c].at \in Beginning => proc[c].record # proc[o].record
    BY <1>1, <1>2, <1>3, SMT DEF OperatorOK, MatchExpected
  <2>5. OperatorOK(o)'
    BY <1>1, <1>2, <2>2, <2>3, <2>4, SMT DEF OperatorOK, pool, Initing, Initializing
  <2>6. InitOK(o)'
    BY <2>2, <2>3, SMT DEF InitOK
  <2>7. OwnOK(o)'
    BY <1>2, <2>5, <2>6 DEF OwnOK
  <2>8. Takes(o, r)
    <3>1. ASSUME NEW q \in Operators \ {o}, proc[q].at = "attested"
          PROVE  proc[q].record \notin children'
      BY <1>1, <3>1, OfOperator, SMT DEF OperatorOK
    <3>2. r.at # "gone" /\ r.at \notin Beginning /\ r.fd # None
      BY <1>2, <2>2, NameFacts, PhaseFacts
    <3> QED
      BY <1>1, <1>2, <2>1, <2>2, <3>1, <3>2 DEF Takes
  <2>9. r.fd # None => content[r.fd] # "none"
    BY <1>2, <2>2, PoolFacts, NameFacts
  <2> QED
    BY <1>1, <1>2, <2>7, <2>8, <2>9, PoolFacts, OfProcess, TurnStill
<1>4. CASE Leave(o)
  <2>1. lock' = lock /\ proc' = [proc EXCEPT ![o] = Gone]
    BY <1>1, <1>4 DEF Leave
  <2>2. UNCHANGED <<pool, lock, children, decision, receipts, history>>
    BY <1>1, <2>1
  <2> QED
    BY <1>2, <2>1, <2>2, GoneIsOutside, NameFacts, PhaseFacts, OutsideTurn
<1> QED
  BY <1>3, <1>4 DEF Recover
-----------------------------------------------------------------------------
\* The operators: init.

\* What holds of an operator in its next state when it is in init.
LEMMA InitingOK ==
    ASSUME NEW o \in Operators, o \notin Controllers, NEW r \in Process, proc'[o] = r,
           r.at \in Initing, children' = {},
           r.at = "state" => content'[r.fd] = "short",
           ~excused' => InitOK(o)'
    PROVE  OwnOK(o)'
<1>1. r.at \notin {"inspected", "attested", "matched", "receipted", "zeroing"}
  BY SMT DEF Initing, Initializing
<1>2. OperatorOK(o)'
  BY <1>1, SMT DEF OperatorOK
<1> QED
  BY <1>2 DEF OwnOK

LEMMA OfInit ==
    ASSUME PoolInvariant, NEW o \in Operators, proc[o].at \in Initing
    PROVE  /\ o \in Processes /\ o \notin Controllers /\ PoolTypeOK
           /\ proc \in [Processes -> Process] /\ proc[o] \in Process
           /\ InInit(o) /\ proc[o].at \notin Outside /\ lock = o /\ children = {}
           /\ (~excused => InitOK(o)) /\ excused \in BOOLEAN
           /\ decision \in {"none", "ready", "refused", "active", "reconcile"}
           /\ proc[o].record \in Attempts => proc[o].record \in begun
<1>1. proc[o].at \notin Outside /\ InInit(o)
  BY Kinds DEF InInit, Initing
<1>2. children = {}
  BY OfOperator DEF OperatorOK
<1> QED
  BY <1>1, <1>2, OfProcess, OfOperator

\* A step of init that leaves it in init.
LEMMA InitTurn ==
    ASSUME PoolInvariant, NEW o \in Operators, proc[o].at \in Initing,
           NEW r \in Process, proc' = [proc EXCEPT ![o] = r], r.at \in Initing,
           r.record = proc[o].record,
           r.at \in {"state", "written"} => r.fd # None,
           Keeps(r), Types', lock' = lock,
           children' = children, decision' = decision, begun' = begun,
           r.at = "state" => content'[r.fd] = "short",
           ~excused' => InitOK(o)'
    PROVE  PoolInvariant'
<1>1. /\ o \in Processes /\ o \notin Controllers /\ lock = o /\ children = {}
      /\ proc[o].at \notin Outside /\ proc'[o] = r /\ r.at # "gone"
      /\ r.at \notin Leased \cup Recovering \cup Beginning
  BY OfInit, Kinds, PhaseFacts
<1>2. Takes(o, r)
  BY <1>1, Insider
<1>3. OwnOK(o)'
  BY <1>1, InitingOK
<1>4. /\ PoolTypeOK' /\ Exclusive' /\ Descriptors' /\ AllBegun'
      /\ \A q \in Processes \ {o} : OwnOK(q)'
  BY <1>1, <1>2, Turn
<1>5. WritersAreMarked' /\ ReadyIsTrue'
  BY <1>1 DEF WritersAreMarked, ReadyIsTrue
<1>6. InitLeavesAllOrNothing'
  BY <1>1 DEF InitLeavesAllOrNothing, InInit, Initing
<1> QED
  BY <1>3, <1>4, <1>5, <1>6 DEF PoolInvariant

LEMMA KeepsWhatIs ==
    ASSUME PoolInvariant, NEW o \in Operators, NEW r \in Process, r.fd = proc[o].fd,
           content' = content, path' \in {path, None}, begun' = begun
    PROVE  Keeps(r)
BY OfOperator, PoolFacts DEF Keeps, PoolInvariant, AllBegun

LEMMA InitPoolStep ==
    ASSUME PoolInvariant, NEW o \in Operators, InitPool(o)
    PROVE  PoolInvariant'
<1>1. /\ proc[o].at = "gone" /\ lock = None /\ Empty /\ lock' = o /\ Go(o, "empty")
      /\ UNCHANGED pool /\ children' = children /\ decision' = decision
      /\ begun' = begun /\ excused' = excused /\ path = None /\ Empty'
  BY DEF InitPool, Free, history, Empty, pool
<1>2. /\ o \in Processes /\ o \notin Controllers /\ PoolTypeOK
      /\ "empty" \in Phases /\ "empty" \in Initing
      /\ "empty" \notin Leased \cup Recovering \cup {"state", "written"} \cup Beginning
      /\ ~InInit(o) /\ proc[o].fd = None /\ children = {}
  <2>1. "empty" \notin Leased \cup Recovering \cup {"state", "written"} \cup Beginning
    BY SMT DEF Leased, Recovering, Beginning
  <2>2. ~InInit(o)
    BY <1>1, SMT DEF InInit, Initializing
  <2>3. children = {}
    BY <1>1, PoolFacts, NameFacts DEF Valid
  <2> QED
    BY <1>1, <2>1, <2>2, <2>3, OfProcess, OfOperator, PhaseFacts
<1>3. PICK r \in Process :
         /\ proc' = [proc EXCEPT ![o] = r]
         /\ r.at = "empty" /\ r.fd = proc[o].fd /\ r.record = proc[o].record
  BY <1>1, <1>2, Goes
<1>4. proc'[o] = r /\ children' = {}
  BY <1>1, <1>2, <1>3, OfProcess
<1>5. InitOK(o)'
  BY <1>1, <1>2, <1>3, <1>4, SMT DEF InitOK
<1>6. OwnOK(o)'
  BY <1>2, <1>3, <1>4, <1>5, InitingOK
<1>7. Takes(o, r)
  BY <1>1, <1>2, <1>3, <1>4, OfOperator DEF Takes
<1> QED
  BY <1>1, <1>2, <1>3, <1>4, <1>6, <1>7, PoolFacts, OfProcess, TurnStill

LEMMA CreateMarkerStep ==
    ASSUME PoolInvariant, NEW o \in Operators, CreateMarker(o)
    PROVE  PoolInvariant'
<1>1. /\ proc[o].at = "empty" /\ marker' = "short" /\ Go(o, "marker")
      /\ path' = path /\ content' = content /\ lock' = lock /\ children' = children
      /\ decision' = decision /\ begun' = begun /\ excused' = excused
  BY DEF CreateMarker, history
<1>2. proc[o].at \in Initing /\ "marker" \in Initing /\ "marker" \in Phases
  BY <1>1, PhaseFacts
<1>3. PICK r \in Process :
         /\ proc' = [proc EXCEPT ![o] = r]
         /\ r.at = "marker" /\ r.fd = proc[o].fd /\ r.record = proc[o].record
  BY <1>1, <1>2, OfInit, Goes
<1>4. proc'[o] = r
  BY <1>2, <1>3, OfInit
<1>5. ~excused' => InitOK(o)'
  BY <1>1, <1>2, <1>3, <1>4, OfInit, SMT DEF InitOK, Empty
<1>6. Types' /\ Keeps(r)
  BY <1>1, <1>2, <1>3, PoolFacts, OfInit, KeepsWhatIs DEF Types
<1> QED
  BY <1>1, <1>2, <1>3, <1>5, <1>6, InitTurn

LEMMA WriteMarkerStep ==
    ASSUME PoolInvariant, NEW o \in Operators, WriteMarker(o)
    PROVE  PoolInvariant'
<1>1. /\ proc[o].at = "marker" /\ marker' = "whole" /\ Go(o, "marked_pool")
      /\ path' = path /\ content' = content /\ lock' = lock /\ children' = children
      /\ decision' = decision /\ begun' = begun /\ excused' = excused
  BY DEF WriteMarker, history
<1>2. proc[o].at \in Initing /\ "marked_pool" \in Initing /\ "marked_pool" \in Phases
  BY <1>1, PhaseFacts
<1>3. PICK r \in Process :
         /\ proc' = [proc EXCEPT ![o] = r]
         /\ r.at = "marked_pool" /\ r.fd = proc[o].fd /\ r.record = proc[o].record
  BY <1>1, <1>2, OfInit, Goes
<1>4. proc'[o] = r
  BY <1>2, <1>3, OfInit
<1>5. ~excused' => InitOK(o)'
  BY <1>1, <1>2, <1>3, <1>4, OfInit, SMT DEF InitOK, Empty
<1>6. Types' /\ Keeps(r)
  BY <1>1, <1>2, <1>3, PoolFacts, OfInit, KeepsWhatIs DEF Types
<1> QED
  BY <1>1, <1>2, <1>3, <1>5, <1>6, InitTurn

LEMMA InitFailsStep ==
    ASSUME PoolInvariant, NEW o \in Operators, InitFails(o)
    PROVE  PoolInvariant'
<1>1. /\ proc[o].at \in Initializing /\ Go(o, "rollback") /\ marker' = marker
      /\ path' = path /\ content' = content /\ lock' = lock /\ children' = children
      /\ decision' = decision /\ begun' = begun /\ excused' = excused
  BY DEF InitFails, history, pool
<1>2. proc[o].at \in Initing /\ "rollback" \in Initing /\ "rollback" \in Phases
  BY <1>1, PhaseFacts DEF Initing
<1>3. PICK r \in Process :
         /\ proc' = [proc EXCEPT ![o] = r]
         /\ r.at = "rollback" /\ r.fd = proc[o].fd /\ r.record = proc[o].record
  BY <1>1, <1>2, OfInit, Goes
<1>4. proc'[o] = r
  BY <1>2, <1>3, OfInit
<1>5. ~excused' => InitOK(o)'
  BY <1>1, <1>2, <1>3, <1>4, OfInit, SMT DEF InitOK, Empty, Initializing
<1>6. Types' /\ Keeps(r)
  BY <1>1, <1>2, <1>3, PoolFacts, OfInit, KeepsWhatIs DEF Types
<1> QED
  BY <1>1, <1>2, <1>3, <1>5, <1>6, InitTurn

LEMMA RollbackStateStep ==
    ASSUME PoolInvariant, NEW o \in Operators, RollbackState(o)
    PROVE  PoolInvariant'
<1>1. /\ proc[o].at = "rollback" /\ Go(o, "rollback_marker") /\ marker' = marker
      /\ content' = content /\ lock' = lock /\ children' = children
      /\ decision' = decision /\ begun' = begun
      /\ path' \in {path, None} /\ excused' \in {excused, TRUE}
      /\ excused' \/ path' = None
  BY DEF RollbackState
<1>2. proc[o].at \in Initing /\ "rollback_marker" \in Initing /\ "rollback_marker" \in Phases
  BY <1>1, PhaseFacts
<1>3. PICK r \in Process :
         /\ proc' = [proc EXCEPT ![o] = r]
         /\ r.at = "rollback_marker" /\ r.fd = proc[o].fd /\ r.record = proc[o].record
  BY <1>1, <1>2, OfInit, Goes
<1>4. proc'[o] = r
  BY <1>2, <1>3, OfInit
<1>5. ~excused' => InitOK(o)'
  BY <1>1, <1>3, <1>4, SMT DEF InitOK
<1>6. Types' /\ Keeps(r)
  BY <1>1, <1>2, <1>3, PoolFacts, OfInit, KeepsWhatIs DEF Types
<1> QED
  BY <1>1, <1>2, <1>3, <1>5, <1>6, InitTurn

LEMMA CreateStateStep ==
    ASSUME PoolInvariant, NEW o \in Operators, CreateState(o)
    PROVE  PoolInvariant'
<1>1. /\ proc[o].at = "marked_pool" /\ marker' = marker /\ lock' = lock /\ children' = children
      /\ decision' = decision /\ begun' = begun /\ excused' = excused
  BY DEF CreateState, history
<1>2. PICK f \in Files :
         /\ Place(f, "short")
         /\ proc' = [proc EXCEPT ![o] = [@ EXCEPT !.at = "state", !.fd = f]]
  BY DEF CreateState
<1>3. proc[o].at \in Initing /\ "state" \in Initing /\ "state" \in Phases
  BY <1>1, PhaseFacts
<1>4. PICK r \in Process :
         /\ proc' = [proc EXCEPT ![o] = r]
         /\ r.at = "state" /\ r.fd = f /\ r.record = proc[o].record
  <2> DEFINE q == [proc[o] EXCEPT !.at = "state", !.fd = f]
  <2>1. q \in Process
    BY <1>3, OfInit, Zenon DEF Process, Phases
  <2>2. q.at = "state" /\ q.fd = f /\ q.record = proc[o].record
    BY <1>3, OfInit, SMT DEF Process
  <2>3. proc' = [proc EXCEPT ![o] = q]
    BY <1>2, <1>3, OfInit
  <2> QED
    BY <2>1, <2>2, <2>3
<1>5. proc'[o] = r
  BY <1>3, <1>4, OfInit
<1>6. /\ path' = f /\ content' = [content EXCEPT ![f] = "short"] /\ content[f] = "none"
      /\ content \in [Files -> {"none", "short"} \cup Records]
  BY <1>2, PoolFacts DEF Place
<1>7. /\ content' \in [Files -> {"none", "short"} \cup Records] /\ content'[f] = "short"
      /\ \A g \in Files : g # f => content'[g] = content[g]
  BY <1>6, SMT
<1>8. ~excused' => InitOK(o)'
  BY <1>1, <1>3, <1>4, <1>5, <1>6, OfInit, SMT DEF InitOK
<1>9. Types'
  BY <1>1, <1>3, <1>6, <1>7, PoolFacts, OfInit DEF Types
<1>10. Keeps(r)
  BY <1>1, <1>4, <1>6, <1>7, NameFacts DEF Keeps, PoolInvariant, AllBegun
<1>11. r.fd # None /\ content'[r.fd] = "short"
  BY <1>4, <1>7, NameFacts
<1> QED
  BY <1>1, <1>3, <1>4, <1>8, <1>9, <1>10, <1>11, InitTurn

LEMMA WriteStateStep ==
    ASSUME PoolInvariant, NEW o \in Operators, WriteState(o)
    PROVE  PoolInvariant'
<1>1. /\ proc[o].at = "state" /\ Put(o, "idle") /\ Go(o, "written") /\ marker' = marker
      /\ path' = path /\ lock' = lock /\ children' = children
      /\ decision' = decision /\ begun' = begun /\ excused' = excused
  BY DEF WriteState, history
<1>2. /\ proc[o].at \in Initing /\ "written" \in Initing /\ "written" \in Phases
      /\ proc[o].fd \in Files
  BY <1>1, PhaseFacts, OfOperator
<1>3. PICK r \in Process :
         /\ proc' = [proc EXCEPT ![o] = r]
         /\ r.at = "written" /\ r.fd = proc[o].fd /\ r.record = proc[o].record
  BY <1>1, <1>2, OfInit, Goes
<1>4. proc'[o] = r
  BY <1>2, <1>3, OfInit
<1>5. /\ content' \in [Files -> {"none", "short"} \cup Records] /\ content'[proc[o].fd] = "idle"
      /\ \A g \in Files : g # proc[o].fd => content'[g] = content[g]
  BY <1>1, <1>2, PoolFacts, NameFacts, SMT DEF Put
<1>6. ~excused' => InitOK(o)'
  <2> SUFFICES ASSUME ~excused' PROVE InitOK(o)'
    OBVIOUS
  <2>1. marker = "whole" /\ path = proc[o].fd
    BY <1>1, <1>2, OfInit, SMT DEF InitOK
  <2>2. Valid'
    BY <1>1, <1>2, <1>5, <2>1, NameFacts DEF Valid
  <2> QED
    BY <1>1, <1>3, <1>4, <2>1, <2>2, SMT DEF InitOK
<1>7. Types'
  BY <1>1, <1>2, <1>5, PoolFacts, OfInit DEF Types
<1>8. Keeps(r)
  BY <1>1, <1>2, <1>3, <1>5, NameFacts, PoolFacts DEF Keeps, PoolInvariant, AllBegun
<1>9. r.fd # None /\ r.at # "state"
  BY <1>2, <1>3, NameFacts
<1> QED
  BY <1>1, <1>2, <1>3, <1>6, <1>7, <1>8, <1>9, InitTurn

LEMMA InitEndsStep ==
    ASSUME PoolInvariant, NEW o \in Operators, InitEnds(o)
    PROVE  PoolInvariant'
<1>1. /\ proc[o].at = "written" /\ Leave(o)
      /\ UNCHANGED pool /\ children' = children /\ decision' = decision
      /\ begun' = begun /\ excused' = excused
  BY DEF InitEnds, history
<1>2. proc[o].at \in Initing
  BY <1>1, PhaseFacts
<1>3. ~excused => Valid
  BY <1>1, <1>2, OfInit, SMT DEF InitOK
<1> QED
  BY <1>1, <1>2, <1>3, OfInit, InsiderLeaves

LEMMA RollbackMarkerStep ==
    ASSUME PoolInvariant, NEW o \in Operators, RollbackMarker(o)
    PROVE  PoolInvariant'
<1>1. /\ proc[o].at = "rollback_marker" /\ Leave(o)
      /\ path' = path /\ content' = content /\ children' = children /\ decision' = decision
      /\ begun' = begun /\ marker' \in {marker, "absent"} /\ excused' \in {excused, TRUE}
      /\ excused' \/ (marker' = "absent" /\ excused' = excused)
  BY DEF RollbackMarker
<1>2. proc[o].at \in Initing
  BY <1>1, PhaseFacts
<1>3. Takes(o, Gone) /\ OwnOK(o)' /\ Gone \in Process /\ Gone.fd = None
  BY <1>1, <1>2, OfInit, LeaverTakes, GoneIsOutside
<1>4. Types'
  BY <1>1, <1>2, PoolFacts, OfInit DEF Types
<1>5. Keeps(Gone)
  BY <1>1, <1>3, PoolFacts DEF Keeps, PoolInvariant, AllBegun
<1>6. /\ PoolTypeOK' /\ Exclusive' /\ Descriptors' /\ AllBegun'
      /\ \A q \in Processes \ {o} : OwnOK(q)'
  BY <1>2, <1>3, <1>4, <1>5, OfInit, Turn
<1>7. WritersAreMarked' /\ ReadyIsTrue'
  BY <1>1, <1>2, OfInit DEF WritersAreMarked, ReadyIsTrue
<1>8. InitLeavesAllOrNothing'
  <2> SUFFICES ASSUME ~excused' PROVE Empty'
    BY DEF InitLeavesAllOrNothing
  <2>1. marker' = "absent" /\ excused' = excused
    BY <1>1
  <2>2. path = None
    BY <1>1, <1>2, <2>1, OfInit, SMT DEF InitOK
  <2> QED
    BY <1>1, <2>1, <2>2 DEF Empty
<1> QED
  BY <1>3, <1>6, <1>7, <1>8 DEF PoolInvariant
-----------------------------------------------------------------------------
\* Steps of nobody in the protocol.

LEMMA ChildEndsStep ==
    ASSUME PoolInvariant, NEW a \in Attempts, ChildEnds(a)
    PROVE  PoolInvariant'
<1>1. /\ children' \subseteq children /\ marker' = marker /\ path' = path /\ content' = content
      /\ lock' = lock /\ proc' = proc /\ decision' = decision /\ receipts' = receipts
      /\ begun' = begun /\ excused' = excused
  BY DEF ChildEnds, pool, history
<1>2. Valid' = Valid /\ Empty' = Empty
  BY <1>1 DEF Valid, Empty
<1>3. PoolTypeOK' /\ Exclusive' /\ Descriptors' /\ AllBegun'
  BY <1>1 DEF PoolInvariant, PoolTypeOK, Exclusive, Descriptors, AllBegun
<1>4. ASSUME NEW q \in Processes PROVE OwnOK(q)'
  <2>1. OwnOK(q)
    BY DEF PoolInvariant
  <2>2. ControllerOK(q) => ControllerOK(q)'
    BY <1>1, <1>2, SMT DEF ControllerOK
  <2>3. OperatorOK(q) => OperatorOK(q)'
    BY <1>1, SMT DEF OperatorOK
  <2>4. InitOK(q) => InitOK(q)'
    BY <1>1, <1>2, SMT DEF InitOK
  <2> QED
    BY <1>1, <2>1, <2>2, <2>3, <2>4 DEF OwnOK
<1>5. WritersAreMarked' /\ ReadyIsTrue'
  BY <1>1, <1>2 DEF PoolInvariant, WritersAreMarked, ReadyIsTrue
<1>6. InitLeavesAllOrNothing'
  BY <1>1, <1>2 DEF PoolInvariant, InitLeavesAllOrNothing, InInit
<1> QED
  BY <1>3, <1>4, <1>5, <1>6 DEF PoolInvariant

LEMMA CopyStep ==
    ASSUME PoolInvariant, Copy
    PROVE  PoolInvariant'
<1>1. /\ path # None /\ marker' = marker /\ lock' = lock /\ proc' = proc /\ children' = children
      /\ decision' = decision /\ receipts' = receipts /\ begun' = begun
      /\ excused' = (excused \/ \E o \in Operators : InInit(o))
  BY DEF Copy
<1>2. PICK f \in Files : Place(f, content[path])
  BY DEF Copy
<1>3. /\ path' = f /\ content[f] = "none" /\ content' = [content EXCEPT ![f] = content[path]]
  BY <1>2 DEF Place
<1>4. /\ content \in [Files -> {"none", "short"} \cup Records] /\ path \in Files
      /\ content[path] # "none" /\ f # path /\ f # None
  BY <1>1, <1>3, PoolFacts, NameFacts
<1>5. /\ content' \in [Files -> {"none", "short"} \cup Records] /\ content'[f] = content[path]
      /\ \A g \in Files : g # f => content'[g] = content[g]
  BY <1>3, <1>4, SMT
<1>6. Valid' = Valid
  BY <1>1, <1>3, <1>4, <1>5 DEF Valid
<1>7. PoolTypeOK'
  BY <1>1, <1>3, <1>5 DEF PoolInvariant, PoolTypeOK
<1>8. Exclusive' /\ AllBegun'
  BY <1>1, <1>3, <1>4, <1>5 DEF PoolInvariant, Exclusive, AllBegun
<1>9. ASSUME NEW q \in Processes
      PROVE  /\ proc[q].fd # None =>
                   proc[q].fd \in Files \ {f} /\ content'[proc[q].fd] = content[proc[q].fd]
             /\ proc[q].at \in Leased \cup Recovering \cup {"state", "written"} =>
                   proc[q].fd # None
  <2>1. proc[q].fd \in Files \cup {None} /\ (proc[q].fd # None => content[proc[q].fd] # "none")
    BY OfProcess, SMT DEF Process, PoolInvariant, Descriptors
  <2> QED
    BY <1>3, <1>5, <2>1 DEF PoolInvariant, Descriptors
<1>10. Descriptors'
  BY <1>1, <1>3, <1>4, <1>5, <1>9 DEF PoolInvariant, Descriptors
<1>11. ASSUME NEW c \in Controllers PROVE ControllerOK(c)'
  <2>1. ControllerOK(c) /\ c \in Processes
    BY OfController
  <2>2. proc[c].at \in Leased => proc[c].fd # f /\ content'[proc[c].fd] = content[proc[c].fd]
    BY <1>9, <2>1
  <2>3. {"marking", "marked", "recorded", "begun", "running", "extinct", "completing", "zeroing",
         "zeroed"} \subseteq Leased
    BY PhaseFacts
  <2> QED
    BY <1>1, <1>3, <1>5, <1>6, <2>1, <2>2, <2>3, SMT DEF ControllerOK
<1>12. ASSUME NEW o \in Operators PROVE OperatorOK(o)' /\ (~excused' => InitOK(o)')
  <2>1. OperatorOK(o) /\ o \in Processes
    BY OfOperator
  <2>2. proc[o].at \in {"matched", "receipted", "zeroing", "state"} =>
           content'[proc[o].fd] = content[proc[o].fd]
    BY <1>9, <2>1, PhaseFacts
  <2>3. OperatorOK(o)'
    BY <1>1, <2>1, <2>2, SMT DEF OperatorOK
  <2>4. ~excused' => proc'[o].at \notin Initing
    BY <1>1 DEF InInit, Initing
  <2>5. ~excused' => InitOK(o)'
    BY <2>4, SMT DEF InitOK, Initing, Initializing
  <2> QED
    BY <2>3, <2>5
<1>13. \A q \in Processes : OwnOK(q)'
  BY <1>11, <1>12 DEF OwnOK
<1>14. WritersAreMarked' /\ ReadyIsTrue'
  BY <1>1, <1>3, <1>5, <1>6 DEF PoolInvariant, WritersAreMarked, ReadyIsTrue
<1>15. InitLeavesAllOrNothing'
  <2> SUFFICES ASSUME ~excused' PROVE Valid'
    BY DEF InitLeavesAllOrNothing
  <2>1. ~excused /\ \A o \in Operators : ~InInit(o)
    BY <1>1
  <2>2. Valid \/ Empty
    BY <2>1 DEF PoolInvariant, InitLeavesAllOrNothing
  <2> QED
    BY <1>1, <1>6, <2>2 DEF Empty
<1> QED
  BY <1>7, <1>8, <1>10, <1>13, <1>14, <1>15 DEF PoolInvariant

\* Nothing of the pool's own state says who is detached.
LEMMA StillStep ==
    ASSUME PoolInvariant,
           UNCHANGED <<pool, lock, proc, children, decision, receipts, history>>
    PROVE  PoolInvariant'
<1>1. /\ children' = children /\ marker' = marker /\ path' = path /\ content' = content
      /\ lock' = lock /\ proc' = proc /\ decision' = decision /\ receipts' = receipts
      /\ begun' = begun /\ excused' = excused
  BY DEF pool, history
<1> QED
  BY <1>1 DEF PoolInvariant, PoolTypeOK, Exclusive, Descriptors, AllBegun, OwnOK, ControllerOK,
     OperatorOK, InitOK, Valid, Empty, InInit, WritersAreMarked, ReadyIsTrue,
     InitLeavesAllOrNothing
-----------------------------------------------------------------------------
LEMMA PoolStep ==
    ASSUME PoolInvariant, [Next]_poolVars
    PROVE  PoolInvariant'
<1>1. ASSUME NEW c \in Controllers,
             \/ TakeLease(c) \/ Check(c) \/ MarkActive(c) \/ MarkFails(c)
             \/ ConfirmMark(c) \/ DecideActive(c) \/ Compensate(c) \/ Launch(c)
             \/ StopGroup(c) \/ Complete(c) \/ Uncertain(c)
             \/ VerifyComplete(c) \/ ConfirmComplete(c)
             \/ \E a \in Attempts : Begin(c, a)
      PROVE  PoolInvariant'
  BY <1>1, TakeLeaseStep, CheckStep, MarkActiveStep, MarkFailsStep, ConfirmMarkStep,
     DecideActiveStep, CompensateStep, LaunchStep, StopGroupStep, CompleteStep, UncertainStep,
     VerifyCompleteStep, ConfirmCompleteStep, BeginStep
<1>2. ASSUME NEW o \in Operators,
             \/ InitPool(o) \/ CreateMarker(o) \/ WriteMarker(o) \/ CreateState(o)
             \/ WriteState(o) \/ InitEnds(o) \/ InitFails(o)
             \/ RollbackState(o) \/ RollbackMarker(o)
             \/ Status(o) \/ Attest(o) \/ Recover(o) \/ WriteReceipt(o)
             \/ VerifyRecover(o) \/ RecoverEnds(o)
      PROVE  PoolInvariant'
  BY <1>2, InitPoolStep, CreateMarkerStep, WriteMarkerStep, CreateStateStep, WriteStateStep,
     InitEndsStep, InitFailsStep, RollbackStateStep, RollbackMarkerStep, StatusStep, AttestStep,
     RecoverStep, WriteReceiptStep, VerifyRecoverStep, RecoverEndsStep
<1>3. ASSUME NEW p \in Processes, Zero(p) \/ ZeroFails(p) \/ Kill(p) PROVE PoolInvariant'
  BY <1>3, ZeroStep, ZeroFailsStep, KillStep
<1>4. ASSUME NEW a \in Attempts, ChildEnds(a) PROVE PoolInvariant'
  BY <1>4, ChildEndsStep
<1>5. CASE Copy
  BY <1>5, CopyStep
<1>6. CASE UNCHANGED poolVars
  BY <1>6, StillStep DEF poolVars
<1>7. ASSUME NEW a \in Attempts, Detach(a) \/ DetachedEnds(a) PROVE PoolInvariant'
  BY <1>7, StillStep DEF Detach, DetachedEnds
<1> QED
  BY <1>1, <1>2, <1>3, <1>4, <1>5, <1>6, <1>7 DEF Next

\* The inductive invariant holds of every behaviour of the pool.
THEOREM Pool == Spec => []PoolInvariant
<1>1. Init => PoolInvariant
  BY PoolInit
<1>2. PoolInvariant /\ [Next]_poolVars => PoolInvariant'
  BY PoolStep
<1> QED
  BY <1>1, <1>2, PTL DEF Spec

\* The record names the attempt whose child's process group may write the pool, so no
\* two groups write it: for any number of controllers that share the state root,
\* operators and replaced files (StoragePoolLease.fs MarkActive and Complete,
\* Worker.fs cleanupExecution, scripts/storage-pool.py recover).  Sessions outside the
\* group are not spoken of.
THEOREM OneMarkedWriter == Spec => []WritersAreMarked
<1>1. PoolInvariant => WritersAreMarked
  BY DEF PoolInvariant
<1> QED
  BY <1>1, Pool, PTL

\* storage-admission.json never says ready while a child's group may write
\* (StorageAdmission.fs Begin and Complete).
THEOREM ReadyMeansQuiet == Spec => []ReadyIsTrue
<1>1. PoolInvariant => ReadyIsTrue
  BY DEF PoolInvariant
<1> QED
  BY <1>1, Pool, PTL

\* scripts/storage-pool.py init leaves a usable pool or none.
THEOREM AllOrNothing == Spec => []InitLeavesAllOrNothing
<1>1. PoolInvariant => InitLeavesAllOrNothing
  BY DEF PoolInvariant
<1> QED
  BY <1>1, Pool, PTL
-----------------------------------------------------------------------------
\* A dirty record that a step turns idle was in the file of the process that is
\* clearing it.

ByHolder(f) ==
    content[f] \in Attempts \cup {"torn"} /\ content'[f] = "idle" =>
        \E p \in Processes : proc[p].at = "zeroing" /\ proc[p].fd = f

LEMMA ClearOfHolder ==
    ASSUME NEW p \in Processes, proc[p].at = "zeroing",
           NEW f \in Files, f # proc[p].fd => content'[f] = content[f]
    PROVE  ByHolder(f)
<1>1. content[f] = "idle" => content[f] \notin Attempts \cup {"torn"}
  BY NameFacts
<1> QED
  BY <1>1 DEF ByHolder

\* A write that marks clears nothing, whatever it leaves.
LEMMA MarkClearsNothing ==
    ASSUME PoolInvariant, NEW c \in Controllers, proc[c].at = "marking",
           NEW record \in Torn(c, proc[c].record), Put(c, record), NEW f \in Files
    PROVE  ByHolder(f)
<1>1. proc[c].record \in Attempts
  BY OfController, SMT DEF ControllerOK, Beginning
<1>2. /\ content \in [Files -> {"none", "short"} \cup Records]
      /\ "idle" \notin Attempts \cup {"torn"}
  BY PoolFacts, NameFacts, NoneAndMarksAreNoAttempts
<1>3. CASE f = proc[c].fd
  <2>1. content'[f] = record /\ record \in {content[f], proc[c].record, "torn"}
    BY <1>2, <1>3 DEF Put, Torn
  <2> QED
    BY <1>1, <1>2, <2>1 DEF ByHolder
<1>4. CASE f # proc[c].fd
  <2>1. content'[f] = content[f]
    BY <1>2, <1>4, OfController DEF Put
  <2> QED
    BY <1>2, <2>1 DEF ByHolder
<1> QED
  BY <1>3, <1>4

LEMMA UnchangedClearsNothing ==
    ASSUME NEW f \in Files, content'[f] = content[f]
    PROVE  ByHolder(f)
BY NoneAndMarksAreNoAttempts, SMT DEF ByHolder

LEMMA HolderStep ==
    ASSUME PoolInvariant, [Next]_poolVars, NEW f \in Files
    PROVE  ByHolder(f)
<1>1. content \in [Files -> {"none", "short"} \cup Records]
  BY PoolFacts
<1>2. ASSUME NEW c \in Controllers, MarkActive(c) PROVE ByHolder(f)
  <2>1. proc[c].at = "marking" /\ Put(c, proc[c].record)
        /\ proc[c].record \in Torn(c, proc[c].record)
    BY <1>2 DEF MarkActive, Torn
  <2> QED
    BY <2>1, MarkClearsNothing
<1>3. ASSUME NEW c \in Controllers, MarkFails(c) PROVE ByHolder(f)
  BY <1>3, MarkClearsNothing DEF MarkFails
<1>4. ASSUME NEW p \in Processes, Zero(p) PROVE ByHolder(f)
  <2>1. proc[p].at = "zeroing" /\ (f # proc[p].fd => content'[f] = content[f])
    BY <1>1, <1>4 DEF Zero, Put
  <2> QED
    BY <2>1, ClearOfHolder
<1>5. ASSUME NEW p \in Processes, ZeroFails(p) PROVE ByHolder(f)
  <2>1. proc[p].at = "zeroing" /\ (f # proc[p].fd => content'[f] = content[f])
    BY <1>1, <1>5 DEF ZeroFails, Put
  <2> QED
    BY <2>1, ClearOfHolder
<1>6. ASSUME NEW p \in Processes, Kill(p) PROVE ByHolder(f)
  <2>1. CASE proc[p].at = "marking"
    <3>1. PICK record \in Torn(p, proc[p].record) : Put(p, record)
      BY <1>6, <2>1, SMT DEF Kill, Put
    <3>2. p \in Controllers
      <4>1. "marking" \notin Outside \cup Initing \cup Recovering
        BY SMT DEF Outside, Initing, Initializing, Recovering
      <4> QED
        BY <2>1, <4>1, OfProcess
    <3> QED
      BY <2>1, <3>1, <3>2, MarkClearsNothing
  <2>2. CASE proc[p].at = "zeroing"
    <3>1. PICK record \in Torn(p, "idle") : Put(p, record)
      BY <1>6, <2>2, SMT DEF Kill, Put
    <3>2. f # proc[p].fd => content'[f] = content[f]
      BY <1>1, <3>1 DEF Put
    <3> QED
      BY <2>2, <3>2, ClearOfHolder
  <2>3. CASE proc[p].at \notin {"marking", "zeroing"}
    <3>1. content' = content
      BY <1>6, <2>3, SMT DEF Kill
    <3> QED
      BY <3>1, UnchangedClearsNothing
  <2> QED
    BY <2>1, <2>2, <2>3
<1>7. ASSUME NEW o \in Operators, WriteState(o) PROVE ByHolder(f)
  <2>1. content[proc[o].fd] = "short" /\ proc[o].fd \in Files
    BY <1>7, OfOperator, SMT DEF WriteState, OperatorOK
  <2>2. f # proc[o].fd => content'[f] = content[f]
    BY <1>1, <1>7 DEF WriteState, Put
  <2>3. "short" \notin Attempts \cup {"torn"}
    BY NameFacts
  <2>4. CASE f = proc[o].fd
    BY <2>1, <2>3, <2>4 DEF ByHolder
  <2> QED
    BY <2>2, <2>4, UnchangedClearsNothing
<1>8. ASSUME NEW g \in Files, NEW record, Place(g, record) PROVE ByHolder(f)
  <2>1. content[g] = "none" /\ (f # g => content'[f] = content[f])
    BY <1>1, <1>8 DEF Place
  <2>2. "none" \notin Attempts \cup {"torn"}
    BY NameFacts
  <2>3. CASE f = g
    BY <2>1, <2>2, <2>3 DEF ByHolder
  <2> QED
    BY <2>1, <2>3, UnchangedClearsNothing
<1>9. ASSUME NEW c \in Controllers,
             \/ TakeLease(c) \/ Check(c) \/ ConfirmMark(c) \/ DecideActive(c) \/ Compensate(c)
             \/ Launch(c) \/ StopGroup(c) \/ Complete(c) \/ Uncertain(c) \/ VerifyComplete(c)
             \/ ConfirmComplete(c) \/ \E a \in Attempts : Begin(c, a)
      PROVE  content' = content
  BY <1>9 DEF TakeLease, Check, ConfirmMark, DecideActive, Compensate, Launch, StopGroup,
     Complete, Uncertain, VerifyComplete, ConfirmComplete, Begin, pool
<1>10. ASSUME NEW o \in Operators,
              \/ InitPool(o) \/ CreateMarker(o) \/ WriteMarker(o) \/ InitEnds(o) \/ InitFails(o)
              \/ RollbackState(o) \/ RollbackMarker(o) \/ Status(o) \/ Attest(o) \/ Recover(o)
              \/ WriteReceipt(o) \/ VerifyRecover(o) \/ RecoverEnds(o)
       PROVE  content' = content
  BY <1>10 DEF InitPool, CreateMarker, WriteMarker, InitEnds, InitFails, RollbackState,
     RollbackMarker, Status, Attest, Recover, WriteReceipt, VerifyRecover, RecoverEnds, pool
<1>11. ASSUME NEW o \in Operators, CreateState(o) PROVE ByHolder(f)
  BY <1>8, <1>11 DEF CreateState
<1>12. CASE Copy
  BY <1>8, <1>12 DEF Copy
<1>13. ASSUME UNCHANGED poolVars
              \/ \E a \in Attempts : ChildEnds(a) \/ Detach(a) \/ DetachedEnds(a)
       PROVE  content' = content
  BY <1>13 DEF ChildEnds, Detach, DetachedEnds, poolVars, pool
<1> QED
  BY <1>2, <1>3, <1>4, <1>5, <1>6, <1>7, <1>9, <1>10, <1>11, <1>12, <1>13,
     UnchangedClearsNothing DEF Next

\* What is cleared is the record the clearing process has in its hands.
LEMMA HeldRecord ==
    ASSUME PoolInvariant, NEW p \in Processes, proc[p].at = "zeroing"
    PROVE  /\ lock = p /\ content[proc[p].fd] = proc[p].record
           /\ p \in Operators => proc[p].record \in receipts /\ proc[p].record \notin children
<1>1. CASE p \in Controllers
  <2>1. ControllerOK(p) /\ lock = p /\ p \notin Operators
    BY <1>1, OfController, PhaseFacts
  <2> QED
    BY <2>1, SMT DEF ControllerOK
<1>2. CASE p \in Operators
  <2>1. OperatorOK(p)
    BY <1>2, OfOperator
  <2>2. proc[p].at \notin Outside
    BY PhaseFacts, Kinds
  <2>3. lock = p
    BY <2>2 DEF PoolInvariant, Exclusive
  <2> QED
    BY <2>1, <2>3, SMT DEF OperatorOK
<1> QED
  BY <1>1, <1>2 DEF Processes

LEMMA ClearStep ==
    ASSUME PoolInvariant, [Next]_poolVars, NEW f \in Files,
           content[f] \in Attempts \cup {"torn"}, content'[f] = "idle"
    PROVE  content[f] \in receipts \/ (lock \in Controllers /\ content[f] = proc[lock].record)
<1>1. PICK p \in Processes : proc[p].at = "zeroing" /\ proc[p].fd = f
  BY HolderStep DEF ByHolder
<1> QED
  BY <1>1, HeldRecord DEF Processes

\* No dirty record disappears without its owner or a durable receipt behind it
\* (scripts/storage-pool.py recover: the receipt precedes the clear).
THEOREM Accounted == Spec => ClearsAreAccountedFor
<1> DEFINE Accounts ==
      \A f \in Files :
          content[f] \in Attempts \cup {"torn"} /\ content'[f] = "idle" =>
              \/ content[f] \in receipts
              \/ lock \in Controllers /\ content[f] = proc[lock].record
<1>1. PoolInvariant /\ [Next]_poolVars => [Accounts]_poolVars
  BY ClearStep
<1>2. Spec => [][Accounts]_poolVars
  BY <1>1, Pool, PTL DEF Spec
<1> QED
  BY <1>2 DEF ClearsAreAccountedFor
-----------------------------------------------------------------------------
\* What an operator attested stays true until the record is cleared: whoever detaches
\* later belonged to another attempt.

Attesting == {"attested", "matched", "receipted", "zeroing"}

NoneDetached ==
    \A o \in Operators : proc[o].at \in Attesting => proc[o].record \notin detached

\* A step attests when nobody is detached, and otherwise hands on the record attested.
Carries(o) ==
    proc'[o].at \in Attesting =>
        \/ detached = {}
        \/ proc[o].at \in Attesting /\ proc'[o].record = proc[o].record

LEMMA OthersCarry ==
    ASSUME PoolInvariant, NEW p \in Processes, NEW o \in Operators, o # p,
           NEW r, proc' = [proc EXCEPT ![p] = r]
    PROVE  Carries(o)
BY OfOperator DEF Carries, PoolInvariant, PoolTypeOK

LEMMA ControllersCarry ==
    ASSUME PoolInvariant, NEW c \in Controllers, NEW o \in Operators,
           \/ TakeLease(c) \/ Check(c) \/ MarkActive(c) \/ MarkFails(c)
           \/ ConfirmMark(c) \/ DecideActive(c) \/ Compensate(c) \/ Launch(c)
           \/ StopGroup(c) \/ Complete(c) \/ Uncertain(c)
           \/ VerifyComplete(c) \/ ConfirmComplete(c)
           \/ \E a \in Attempts : Begin(c, a)
    PROVE  Carries(o)
<1>1. o # c /\ c \in Processes
  BY OfController
<1>2. proc' = proc \/ \E r : proc' = [proc EXCEPT ![c] = r]
  BY DEF TakeLease, Check, MarkActive, MarkFails, ConfirmMark, DecideActive, Compensate, Launch,
     StopGroup, Complete, Uncertain, VerifyComplete, ConfirmComplete, Begin, Go, Cleared
<1>3. CASE proc' = proc
  BY <1>3 DEF Carries
<1> QED
  BY <1>1, <1>2, <1>3, OthersCarry

LEMMA OperatorsCarry ==
    ASSUME PoolInvariant, NEW p \in Operators, NEW o \in Operators,
           \/ InitPool(p) \/ CreateMarker(p) \/ WriteMarker(p) \/ CreateState(p)
           \/ WriteState(p) \/ InitEnds(p) \/ InitFails(p)
           \/ RollbackState(p) \/ RollbackMarker(p)
           \/ Status(p) \/ Attest(p) \/ Recover(p) \/ WriteReceipt(p)
           \/ VerifyRecover(p) \/ RecoverEnds(p)
    PROVE  Carries(o)
<1>1. p \in Processes /\ proc \in [Processes -> Process] /\ proc[p] \in Process
  BY OfOperator, OfProcess DEF PoolInvariant, PoolTypeOK
<1>2. \E r : proc' = [proc EXCEPT ![p] = r]
  BY DEF InitPool, CreateMarker, WriteMarker, CreateState, WriteState, InitEnds, InitFails,
     RollbackState, RollbackMarker, Status, Attest, Recover, WriteReceipt, VerifyRecover,
     RecoverEnds, Go, Leave
<1>3. CASE o # p
  BY <1>1, <1>2, <1>3, OthersCarry
<1>4. CASE o = p
  <2>1. ASSUME NEW phase, Go(p, phase) PROVE proc'[p].at = phase /\ proc'[p].record = proc[p].record
    BY <1>1, <2>1, SMT DEF Go, Process
  <2>2. ASSUME Leave(p) PROVE Carries(p)
    BY <1>1, <2>2, GoneIsOutside, SMT DEF Leave, Carries, Attesting
  <2>3. CASE \/ InitPool(p) \/ CreateMarker(p) \/ WriteMarker(p) \/ WriteState(p)
             \/ InitFails(p) \/ RollbackState(p)
    <3>1. proc'[p].at \in Initializing \cup {"rollback", "rollback_marker"}
      BY <2>1, <2>3, SMT DEF InitPool, CreateMarker, WriteMarker, WriteState, InitFails, RollbackState,
         Initializing
    <3> QED
      BY <1>4, <3>1, SMT DEF Carries, Attesting, Initializing
  <2>4. CASE CreateState(p)
    <3>1. PICK f \in Files : proc' = [proc EXCEPT ![p] = [@ EXCEPT !.at = "state", !.fd = f]]
      BY <2>4 DEF CreateState
    <3>2. proc'[p].at = "state"
      BY <1>1, <3>1, SMT DEF Process
    <3> QED
      BY <1>4, <3>2, SMT DEF Carries, Attesting
  <2>5. CASE InitEnds(p) \/ RollbackMarker(p) \/ RecoverEnds(p)
    BY <1>4, <2>2, <2>5 DEF InitEnds, RollbackMarker, RecoverEnds
  <2>6. CASE Status(p)
    <3>1. proc'[p].at = "inspected"
      BY <1>1, <2>6, SMT DEF Status, Process
    <3> QED
      BY <1>4, <3>1, SMT DEF Carries, Attesting
  <2>7. CASE Attest(p)
    BY <1>4, <2>7 DEF Attest, Carries
  <2>8. CASE Recover(p)
    <3>1. CASE MatchExpected(p)
      <4>1. /\ proc[p].at = "attested"
            /\ proc' = [proc EXCEPT ![p] =
                          [@ EXCEPT !.at = "matched", !.fd = path, !.record = content[path]]]
        BY <2>8, <3>1 DEF Recover
      <4>2. proc'[p].record = content[path]
        BY <1>1, <4>1, SMT DEF Process
      <4> QED
        BY <1>4, <3>1, <4>1, <4>2, SMT DEF MatchExpected, Carries, Attesting
    <3>2. CASE ~MatchExpected(p)
      BY <1>4, <2>2, <2>8, <3>2 DEF Recover
    <3> QED
      BY <3>1, <3>2
  <2>9. CASE WriteReceipt(p) \/ VerifyRecover(p)
    <3>1. proc[p].at \in Attesting /\ (Leave(p) \/ proc'[p].record = proc[p].record)
      BY <2>1, <2>9, SMT DEF WriteReceipt, VerifyRecover, Attesting
    <3> QED
      BY <1>4, <2>2, <3>1 DEF Carries
  <2> QED
    BY <2>3, <2>4, <2>5, <2>6, <2>7, <2>8, <2>9
<1> QED
  BY <1>3, <1>4

\* Whoever clears or dies attests nothing.
LEMMA WritersCarry ==
    ASSUME PoolInvariant, NEW p \in Processes, NEW o \in Operators, Zero(p) \/ ZeroFails(p) \/ Kill(p)
    PROVE  Carries(o)
<1>1. proc \in [Processes -> Process] /\ proc[p] \in Process
  BY OfProcess DEF PoolInvariant, PoolTypeOK
<1>2. \E r : proc' = [proc EXCEPT ![p] = r]
  BY DEF Zero, ZeroFails, Kill, Go, Leave, Cleared
<1>3. CASE o # p
  BY <1>2, <1>3, OthersCarry
<1>4. CASE o = p
  <2>1. o \notin Controllers
    BY OfOperator
  <2>2. proc'[p].at \in {"zeroed", "gone"}
    BY <1>1, <1>4, <2>1, GoneIsOutside, SMT DEF Zero, ZeroFails, Kill, Go, Leave, Process
  <2> QED
    BY <1>4, <2>2, SMT DEF Carries, Attesting
<1> QED
  BY <1>3, <1>4

LEMMA AttestedStep ==
    ASSUME PoolInvariant, NoneDetached, [Next]_poolVars
    PROVE  NoneDetached'
<1>1. ASSUME detached' = detached, \A o \in Operators : Carries(o)
      PROVE  NoneDetached'
  BY <1>1 DEF NoneDetached, Carries
<1>2. ASSUME NEW c \in Controllers,
             \/ TakeLease(c) \/ Check(c) \/ MarkActive(c) \/ MarkFails(c)
             \/ ConfirmMark(c) \/ DecideActive(c) \/ Compensate(c) \/ Launch(c)
             \/ StopGroup(c) \/ Complete(c) \/ Uncertain(c)
             \/ VerifyComplete(c) \/ ConfirmComplete(c)
             \/ \E a \in Attempts : Begin(c, a)
      PROVE  NoneDetached'
  <2>1. detached' = detached
    BY <1>2 DEF TakeLease, Check, MarkActive, MarkFails, ConfirmMark, DecideActive, Compensate,
       Launch, StopGroup, Complete, Uncertain, VerifyComplete, ConfirmComplete, Begin
  <2> QED
    BY <1>1, <1>2, <2>1, ControllersCarry
<1>3. ASSUME NEW p \in Operators,
             \/ InitPool(p) \/ CreateMarker(p) \/ WriteMarker(p) \/ CreateState(p)
             \/ WriteState(p) \/ InitEnds(p) \/ InitFails(p)
             \/ RollbackState(p) \/ RollbackMarker(p)
             \/ Status(p) \/ Attest(p) \/ Recover(p) \/ WriteReceipt(p)
             \/ VerifyRecover(p) \/ RecoverEnds(p)
      PROVE  NoneDetached'
  <2>1. detached' = detached
    BY <1>3 DEF InitPool, CreateMarker, WriteMarker, CreateState, WriteState, InitEnds, InitFails,
       RollbackState, RollbackMarker, Status, Attest, Recover, WriteReceipt, VerifyRecover,
       RecoverEnds
  <2> QED
    BY <1>1, <1>3, <2>1, OperatorsCarry
<1>4. ASSUME NEW p \in Processes, Zero(p) \/ ZeroFails(p) \/ Kill(p) PROVE NoneDetached'
  <2>1. detached' = detached
    BY <1>4 DEF Zero, ZeroFails, Kill
  <2> QED
    BY <1>1, <1>4, <2>1, WritersCarry
<1>5. ASSUME NEW a \in Attempts, Detach(a) PROVE NoneDetached'
  <2>1. a \in children /\ detached' = detached \cup {a} /\ proc' = proc
    BY <1>5 DEF Detach
  <2>2. ASSUME NEW o \in Operators, proc[o].at \in Attesting PROVE proc[o].record # a
    BY <2>1, <2>2, OfOperator, SMT DEF OperatorOK, Attesting
  <2> QED
    BY <2>1, <2>2 DEF NoneDetached
<1>6. ASSUME NEW a \in Attempts, ChildEnds(a) \/ DetachedEnds(a) PROVE NoneDetached'
  BY <1>6 DEF ChildEnds, DetachedEnds, NoneDetached
<1>7. CASE Copy \/ UNCHANGED poolVars
  BY <1>7 DEF Copy, poolVars, NoneDetached
<1> QED
  BY <1>2, <1>3, <1>4, <1>5, <1>6, <1>7 DEF Next

\* An operator's recovery clears no record of an attempt that has a process left,
\* however late it comes (scripts/storage-pool.py recover after --writers-extinct).
THEOREM RecoveredAreExtinct == Spec => RecoveryFollowsExtinction
<1> DEFINE Follows ==
      \A f \in Files :
          content[f] \in Attempts /\ content'[f] = "idle" /\ lock \in Operators =>
              content[f] \notin children \cup detached
<1>1. Init => NoneDetached
  BY SMT DEF Init, NoneDetached
<1>2. PoolInvariant /\ NoneDetached /\ [Next]_poolVars => NoneDetached'
  BY AttestedStep
<1>3. PoolInvariant /\ NoneDetached /\ [Next]_poolVars => [Follows]_poolVars
  <2> SUFFICES ASSUME PoolInvariant, NoneDetached, [Next]_poolVars, NEW f \in Files,
                      content[f] \in Attempts, content'[f] = "idle", lock \in Operators
               PROVE  content[f] \notin children \cup detached
    OBVIOUS
  <2>1. PICK p \in Processes : proc[p].at = "zeroing" /\ proc[p].fd = f
    BY HolderStep DEF ByHolder
  <2>2. p \in Operators /\ content[f] = proc[p].record /\ proc[p].record \notin children
    BY <2>1, HeldRecord
  <2>3. proc[p].at \in Attesting
    BY <2>1, SMT DEF Attesting
  <2> QED
    BY <2>2, <2>3 DEF NoneDetached
<1>4. Spec => [](PoolInvariant /\ NoneDetached)
  BY <1>1, <1>2, Pool, PTL DEF Spec
<1>5. Spec => [][Follows]_poolVars
  BY <1>3, <1>4, PTL DEF Spec
<1> QED
  BY <1>5 DEF RecoveryFollowsExtinction
=============================================================================
