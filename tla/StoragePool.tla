---------------------------- MODULE StoragePool ----------------------------
(***************************************************************************)
(* The bounded workspace pool and those who may write its state record:    *)
(* controllers (StorageAdmission.fs, StoragePoolLease.fs) and operators    *)
(* (scripts/storage-pool.py init, status, recover).  The record is all     *)
(* zero while the pool is idle; before a child is launched it is replaced  *)
(* by the attempt's identity, and it stays when nobody can prove that the  *)
(* child's writers are gone.                                               *)
(*                                                                         *)
(* The pool directory's flock is held by at most one process and dies with *)
(* it.  A write of the record ends in fsync; one that fails or is cut off  *)
(* leaves the old record, the new one or a mixture, which is never all     *)
(* zero because of the guard byte.                                         *)
(***************************************************************************)
EXTENDS Naturals

CONSTANTS
    Controllers,    \* controller processes that share the state root
    Operators,      \* invocations of scripts/storage-pool.py
    Attempts,       \* identities org/attempt/fence, each claimed once
    MaxFiles,       \* bound: state files that ever existed at the path
    None

ASSUME MaxFilesAssumption == MaxFiles \in Nat \ {0}
ASSUME DistinctProcesses == Controllers \cap Operators = {}
ASSUME NoneAndMarksAreNoAttempts ==
    Attempts \cap {None, "none", "short", "idle", "torn"} = {}
ASSUME NoneIsNoName ==
    /\ None \notin Controllers \cup Operators
    /\ None \notin 1..MaxFiles
    /\ None \notin {"idle", "torn"}

Files == 1..MaxFiles
Records == {"idle", "torn"} \cup Attempts
Processes == Controllers \cup Operators

VARIABLES
    marker,     \* .fogell-pool-id
    path,       \* the file .fogell-pool-state names
    content,    \* of every state file that ever was there
    lock,       \* owner of the pool directory's exclusive flock
    proc,       \* per process: what it does next, its descriptor, its record,
                \* and whether it clears that record without a decision
    children,   \* attempts whose child's process group may still write the pool
    detached,   \* attempts with writers in sessions outside that group
    decision,   \* storage-admission.json
    receipts,   \* records named by a recovery receipt
    begun,      \* history: identities Begin was called with
    excused     \* history: an init was killed, reported a failed rollback or
                \* had its state file replaced

pool == <<marker, path, content>>
history == <<begun, excused>>
poolVars == <<pool, lock, proc, children, detached, decision, receipts, history>>
-----------------------------------------------------------------------------
Gone == [at |-> "gone", fd |-> None, record |-> None, quiet |-> FALSE]

Init ==
    /\ marker = "absent" /\ path = None
    /\ content = [f \in Files |-> "none"]
    /\ lock = None
    /\ proc = [p \in Processes |-> Gone]
    /\ children = {} /\ detached = {}
    /\ decision = "none"
    /\ receipts = {}
    /\ begun = {} /\ excused = FALSE

Go(p, at) == proc' = [proc EXCEPT ![p].at = at]

\* A process exits or dies and its flock goes with it.
Leave(p) ==
    /\ proc' = [proc EXCEPT ![p] = Gone]
    /\ lock' = IF lock = p THEN None ELSE lock

\* Nobody holds the directory's flock; a held one refuses, nobody waits.
Free == lock = None

\* Nothing is in the pool, so nothing is adopted.
Empty == marker = "absent" /\ path = None

\* A marker of this pool and a state file of exactly 4096 bytes.
Valid == marker = "whole" /\ path # None /\ content[path] # "short"

\* The name still leads to the file the process opened.
Current(p) == Valid /\ proc[p].fd = path

Dirty(p) == content[proc[p].fd] # "idle"

Put(p, record) == content' = [content EXCEPT ![proc[p].fd] = record]

\* What a write of record may have left when it failed or was cut off.
Torn(p, record) == {content[proc[p].fd], record, "torn"}

\* The decision file is replaced by the lease's owner; a failure may come
\* before or after the rename.
Persist(d) == decision' \in {decision, d}

\* A clear ends; the compensation of Begin ignores how.
Cleared(c, d) ==
    /\ proc' = [proc EXCEPT ![c] = [@ EXCEPT !.at = "leased", !.quiet = FALSE]]
    /\ IF proc[c].quiet THEN UNCHANGED decision ELSE Persist(d)
-----------------------------------------------------------------------------
\* Controllers: StorageAdmission over its PoolLease.

\* The first check takes the lease; a controller that cannot stays outside.
TakeLease(c) ==
    /\ proc[c].at = "gone" /\ Free /\ Valid
    /\ lock' = c
    /\ proc' = [proc EXCEPT ![c] = [Gone EXCEPT !.at = "leased", !.fd = path]]
    /\ UNCHANGED <<pool, children, detached, decision, receipts, history>>

\* check without capacity: the leased record is the pool's and idle.
MayAdmit(c) == Current(c) /\ ~Dirty(c)

\* CheckStart, Ready and a Begin whose check fails: only the decision is
\* recorded.  Capacity may refuse an idle pool.
Check(c) ==
    /\ proc[c].at = "leased"
    /\ \/ MayAdmit(c) /\ Persist("ready")
       \/ Persist("refused")
    /\ UNCHANGED <<pool, lock, proc, children, detached, receipts, history>>

\* Begin up to the write of MarkActive.
Begin(c, a) ==
    /\ proc[c].at = "leased" /\ a \notin begun /\ MayAdmit(c)
    /\ proc' = [proc EXCEPT ![c] = [@ EXCEPT !.at = "marking", !.record = a]]
    /\ decision' = "ready"
    /\ begun' = begun \cup {a}
    /\ UNCHANGED <<pool, lock, children, detached, receipts, excused>>

MarkActive(c) ==
    /\ proc[c].at = "marking"
    /\ Put(c, proc[c].record)
    /\ Go(c, "marked")
    /\ UNCHANGED <<marker, path, lock, children, detached, decision, receipts, history>>

MarkFails(c) ==
    /\ proc[c].at = "marking"
    /\ \E r \in Torn(c, proc[c].record) : Put(c, r)
    /\ Go(c, "leased")
    /\ UNCHANGED <<marker, path, lock, children, detached, decision, receipts, history>>

\* The verification after the write; a record in a replaced file is no record.
ConfirmMark(c) ==
    /\ proc[c].at = "marked"
    /\ Go(c, IF Current(c) THEN "recorded" ELSE "leased")
    /\ UNCHANGED <<pool, lock, children, detached, decision, receipts, history>>

\* Mutant: Begin goes on although the decision was not stored.
DecideActive_Unchecked(c) ==
    /\ proc[c].at = "recorded"
    /\ Go(c, "begun")
    /\ Persist("active")
    /\ UNCHANGED <<pool, lock, children, detached, receipts, history>>

DecideActive(c) ==
    /\ proc[c].at = "recorded"
    /\ Go(c, "begun")
    /\ decision' = "active"
    /\ UNCHANGED <<pool, lock, children, detached, receipts, history>>

\* The decision could not be stored: Begin takes its record back.
Compensate(c) ==
    /\ proc[c].at = "recorded"
    /\ proc' = [proc EXCEPT ![c] = [@ EXCEPT !.at = "completing", !.quiet = TRUE]]
    /\ Persist("active")
    /\ UNCHANGED <<pool, lock, children, detached, receipts, history>>

Launch(c) ==
    /\ proc[c].at = "begun"
    /\ Go(c, "running")
    /\ children' = children \cup {proc[c].record}
    /\ UNCHANGED <<pool, lock, detached, decision, receipts, history>>

\* The group's processes end, observed or not.
ChildEnds(a) ==
    /\ a \in children
    /\ children' = children \ {a}
    /\ UNCHANGED <<pool, lock, proc, detached, decision, receipts, history>>

\* A process of the group starts a session of its own; it outlives the group.
Detach(a) ==
    /\ a \in children
    /\ detached' = detached \cup {a}
    /\ UNCHANGED <<pool, lock, proc, children, decision, receipts, history>>

DetachedEnds(a) ==
    /\ a \in detached
    /\ detached' = detached \ {a}
    /\ UNCHANGED <<pool, lock, proc, children, decision, receipts, history>>

\* cleanupExecution: what is left of the child's group is terminated, until the
\* group is verified to be extinct.
StopGroup(c) ==
    /\ proc[c].at = "running"
    /\ children' = children \ {proc[c].record}
    /\ Go(c, "extinct")
    /\ UNCHANGED <<pool, lock, detached, decision, receipts, history>>

\* Mutant: a claim is settled although its group was not stopped.
MayComplete_Running(c) == proc[c].at \in {"begun", "running", "extinct"}

\* The disposition of a claim: the child was never launched, or the terminal
\* result was published, which takes the extinction of its group.
MayComplete(c) == proc[c].at \in {"begun", "extinct"}

Complete(c) ==
    /\ MayComplete(c)
    /\ Go(c, "completing")
    /\ UNCHANGED <<pool, lock, children, detached, decision, receipts, history>>

\* Nothing was published: the record stays for the operators.
Uncertain(c) ==
    /\ proc[c].at \in {"running", "extinct"}
    /\ Go(c, "leased")
    /\ Persist("reconcile")
    /\ UNCHANGED <<pool, lock, children, detached, receipts, history>>

\* PoolLease.Complete: verify, refuse an idle record, write zeros, verify.
VerifyComplete(c) ==
    /\ proc[c].at = "completing"
    /\ IF Current(c) /\ Dirty(c)
       THEN Go(c, "zeroing") /\ UNCHANGED decision
       ELSE Cleared(c, "refused")
    /\ UNCHANGED <<pool, lock, children, detached, receipts, history>>

ConfirmComplete(c) ==
    /\ proc[c].at = "zeroed"
    /\ Cleared(c, IF Current(c) THEN "ready" ELSE "refused")
    /\ UNCHANGED <<pool, lock, children, detached, receipts, history>>
-----------------------------------------------------------------------------
\* write_exact of zeros, by the holder of the flock.

Zero(p) ==
    /\ proc[p].at = "zeroing"
    /\ Put(p, "idle")
    /\ Go(p, "zeroed")
    /\ UNCHANGED <<marker, path, lock, children, detached, decision, receipts, history>>

ZeroFails(p) ==
    /\ proc[p].at = "zeroing"
    /\ \E r \in Torn(p, "idle") : Put(p, r)
    /\ IF p \in Controllers
       THEN Cleared(p, "refused") /\ UNCHANGED lock
       ELSE Leave(p) /\ UNCHANGED decision
    /\ UNCHANGED <<marker, path, children, detached, receipts, history>>
-----------------------------------------------------------------------------
\* Operators: init.

Initializing == {"empty", "marker", "marked_pool", "state", "written"}
InInit(p) == proc[p].at \in Initializing \cup {"rollback", "rollback_marker"}

\* Locked and found empty.
InitPool(o) ==
    /\ proc[o].at = "gone" /\ Free /\ Empty
    /\ lock' = o
    /\ Go(o, "empty")
    /\ UNCHANGED <<pool, children, detached, decision, receipts, history>>

CreateMarker(o) ==
    /\ proc[o].at = "empty"
    /\ marker' = "short"
    /\ Go(o, "marker")
    /\ UNCHANGED <<path, content, lock, children, detached, decision, receipts, history>>

WriteMarker(o) ==
    /\ proc[o].at = "marker"
    /\ marker' = "whole"
    /\ Go(o, "marked_pool")
    /\ UNCHANGED <<path, content, lock, children, detached, decision, receipts, history>>

\* A name that was never used becomes the path.
Place(f, record) ==
    /\ content[f] = "none" /\ \A g \in 1..(f - 1) : content[g] # "none"
    /\ path' = f
    /\ content' = [content EXCEPT ![f] = record]

CreateState(o) ==
    /\ proc[o].at = "marked_pool"
    /\ \E f \in Files :
          /\ Place(f, "short")
          /\ proc' = [proc EXCEPT ![o] = [@ EXCEPT !.at = "state", !.fd = f]]
    /\ UNCHANGED <<marker, lock, children, detached, decision, receipts, history>>

WriteState(o) ==
    /\ proc[o].at = "state"
    /\ Put(o, "idle")
    /\ Go(o, "written")
    /\ UNCHANGED <<marker, path, lock, children, detached, decision, receipts, history>>

\* The directory is synced and the command reports success.
InitEnds(o) ==
    /\ proc[o].at = "written"
    /\ Leave(o)
    /\ UNCHANGED <<pool, children, detached, decision, receipts, history>>

\* A call fails: what was created is removed, the state file first.
InitFails(o) ==
    /\ proc[o].at \in Initializing
    /\ Go(o, "rollback")
    /\ UNCHANGED <<pool, lock, children, detached, decision, receipts, history>>

\* Only the file this invocation created is removed; what replaced it, or
\* cannot be removed, is reported.
RollbackState(o) ==
    /\ proc[o].at = "rollback"
    /\ Go(o, "rollback_marker")
    /\ \/ /\ path = proc[o].fd
          /\ path' = None /\ UNCHANGED excused
       \/ /\ proc[o].fd # None
          /\ excused' = TRUE /\ UNCHANGED path
    /\ UNCHANGED <<marker, content, lock, children, detached, decision, receipts, begun>>

\* Mutant: the rollback forgets the first file.
RollbackMarker_Kept(o) ==
    /\ proc[o].at = "rollback_marker"
    /\ Leave(o)
    /\ UNCHANGED <<pool, children, detached, decision, receipts, history>>

RollbackMarker(o) ==
    /\ proc[o].at = "rollback_marker"
    /\ \/ marker' = "absent" /\ UNCHANGED excused
       \/ marker # "absent" /\ excused' = TRUE /\ UNCHANGED marker
    /\ Leave(o)
    /\ UNCHANGED <<path, content, children, detached, decision, receipts, begun>>
-----------------------------------------------------------------------------
\* Operators: status, then recover.

\* status takes a shared lock, which a controller's lease refuses; it prints
\* the record's digest.
Status(o) ==
    /\ proc[o].at = "gone" /\ Free /\ Valid /\ content[path] # "idle"
    /\ proc' = [proc EXCEPT ![o] =
                  [@ EXCEPT !.at = "inspected", !.record = content[path]]]
    /\ UNCHANGED <<pool, lock, children, detached, decision, receipts, history>>

\* --writers-extinct, given after stopping every controller and execution
\* domain, detached descendants included.  It says nothing of what starts later.
Attest(o) ==
    /\ proc[o].at = "inspected"
    /\ children = {} /\ detached = {} /\ \A c \in Controllers : proc[c].at = "gone"
    /\ Go(o, "attested")
    /\ UNCHANGED <<pool, lock, children, detached, decision, receipts, history>>

\* Mutant: any dirty record may be cleared.
MatchExpected_AnyDirty(o) == content[path] # "idle"

\* Recovery clears the record the operator named and no other.
MatchExpected(o) == content[path] = proc[o].record

Recover(o) ==
    /\ proc[o].at = "attested" /\ Free /\ Valid
    /\ IF MatchExpected(o)
       THEN /\ lock' = o
            /\ proc' = [proc EXCEPT ![o] =
                          [@ EXCEPT !.at = "matched", !.fd = path, !.record = content[path]]]
       ELSE Leave(o)
    /\ UNCHANGED <<pool, children, detached, decision, receipts, history>>

\* Mutant: the receipt is left for after the clear.
WriteReceipt_Later(o) ==
    /\ proc[o].at = "matched"
    /\ IF Current(o) THEN Go(o, "receipted") /\ UNCHANGED lock ELSE Leave(o)
    /\ UNCHANGED <<pool, children, detached, decision, receipts, history>>

\* The receipt is durable, outside the pool, before the record is cleared.
WriteReceipt(o) ==
    /\ proc[o].at = "matched"
    /\ IF Current(o)
       THEN /\ receipts' = receipts \cup {proc[o].record}
            /\ Go(o, "receipted") /\ UNCHANGED lock
       ELSE Leave(o) /\ UNCHANGED receipts
    /\ UNCHANGED <<pool, children, detached, decision, history>>

VerifyRecover(o) ==
    /\ proc[o].at = "receipted"
    /\ IF Current(o) THEN Go(o, "zeroing") /\ UNCHANGED lock ELSE Leave(o)
    /\ UNCHANGED <<pool, children, detached, decision, receipts, history>>

\* The last verification changes only what the command reports.
RecoverEnds(o) ==
    /\ proc[o].at = "zeroed"
    /\ Leave(o)
    /\ UNCHANGED <<pool, children, detached, decision, receipts, history>>
-----------------------------------------------------------------------------
\* Anybody may be killed anywhere; the controller's children survive it.
Kill(p) ==
    /\ proc[p].at # "gone"
    /\ content' \in
          CASE proc[p].at = "marking" ->
                  {[content EXCEPT ![proc[p].fd] = r] : r \in Torn(p, proc[p].record)}
            [] proc[p].at = "zeroing" ->
                  {[content EXCEPT ![proc[p].fd] = r] : r \in Torn(p, "idle")}
            [] OTHER -> {content}
    /\ excused' = (excused \/ InInit(p))
    /\ receipts' \in IF proc[p].at = "matched"
                     THEN {receipts, receipts \cup {proc[p].record}} ELSE {receipts}
    /\ Leave(p)
    /\ UNCHANGED <<marker, path, children, detached, decision, begun>>

\* Somebody outside the protocol puts a copy of the state file in its place.
Copy ==
    /\ path # None
    /\ \E f \in Files : Place(f, content[path])
    /\ excused' = (excused \/ \E o \in Operators : InInit(o))
    /\ UNCHANGED <<marker, lock, proc, children, detached, decision, receipts, begun>>

Next ==
    \/ \E c \in Controllers :
          \/ TakeLease(c) \/ Check(c) \/ MarkActive(c) \/ MarkFails(c)
          \/ ConfirmMark(c) \/ DecideActive(c) \/ Compensate(c) \/ Launch(c)
          \/ StopGroup(c) \/ Complete(c) \/ Uncertain(c)
          \/ VerifyComplete(c) \/ ConfirmComplete(c)
          \/ \E a \in Attempts : Begin(c, a)
    \/ \E o \in Operators :
          \/ InitPool(o) \/ CreateMarker(o) \/ WriteMarker(o) \/ CreateState(o)
          \/ WriteState(o) \/ InitEnds(o) \/ InitFails(o)
          \/ RollbackState(o) \/ RollbackMarker(o)
          \/ Status(o) \/ Attest(o) \/ Recover(o) \/ WriteReceipt(o)
          \/ VerifyRecover(o) \/ RecoverEnds(o)
    \/ \E p \in Processes : Zero(p) \/ ZeroFails(p) \/ Kill(p)
    \/ \E a \in Attempts : ChildEnds(a) \/ Detach(a) \/ DetachedEnds(a)
    \/ Copy

Spec == Init /\ [][Next]_poolVars
-----------------------------------------------------------------------------
\* While the process group of an attempt's child may write the pool, the pool's
\* record names the attempt, whatever was killed, recovered late or replaced
\* meanwhile.  So no two groups write the pool, and no controller takes it for idle
\* (StoragePoolLease.fs: a controller that dies after admitting a child leaves a
\* dirty marker).  Nothing is said of sessions outside the group: a published claim
\* clears the record although such a process may remain.
WritersAreMarked ==
    \A a \in children : Valid /\ content[path] = a

\* A dirty record is cleared by the controller that wrote it, or after a
\* receipt that names it became durable; so a crash in between leaves a receipt
\* without a clear and never a clear without a receipt.
ClearsAreAccountedFor ==
    [][\A f \in Files :
          content[f] \in Attempts \cup {"torn"} /\ content'[f] = "idle" =>
              \/ content[f] \in receipts
              \/ lock \in Controllers /\ content[f] = proc[lock].record
      ]_poolVars

\* An operator clears an attempt's record only when no process of it is left, in the
\* child's group or detached from it, however late the recovery comes and whatever
\* started in between (storage-pool.md's recovery: writers extinct, including
\* detached descendants).
RecoveryFollowsExtinction ==
    [][\A f \in Files :
          content[f] \in Attempts /\ content'[f] = "idle" /\ lock \in Operators =>
              content[f] \notin children \cup detached
      ]_poolVars

\* The decision file says ready only when no child's group is left: Begin replaces it
\* before a launch and a controller that lost its child's end does not restore
\* it.
ReadyIsTrue == decision = "ready" => children = {}

\* An init that ran undisturbed or reports that it rolled back leaves an empty
\* pool, which init accepts again, or a usable one.
InitLeavesAllOrNothing ==
    ~excused /\ (\A o \in Operators : ~InInit(o)) =>
        Valid \/ Empty
=============================================================================
