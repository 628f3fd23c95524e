------------------------ MODULE EffectListing_proofs ------------------------
(***************************************************************************)
(* Proofs about EffectListing, for any number of effects, classifying      *)
(* sessions, pages, chunks, backups in time and restores.                  *)
(***************************************************************************)
EXTENDS EffectListing, FiniteSetTheorems, TLAPS

-----------------------------------------------------------------------------
\* The inductive invariant.

Backup == [stale : SUBSET Effects, uncertain_seq : [Effects -> Nat],
           last_issued : Nat, restore_epoch : Nat, timeline : Nat]
Cursor == [epoch : Nat, seq : Nat]
Client == [at : {"between", "reading", "ended"}, cursor : Cursor, epoch : Nat,
           listed : SUBSET (Effects \X Nat), timeline : Nat, crossed : BOOLEAN]

ListingTypeOK ==
    /\ stale \in SUBSET Effects
    /\ uncertain_seq \in [Effects -> Nat]
    /\ last_issued \in Nat
    /\ restore_epoch \in Nat
    /\ drawn = [c \in Classifiers |-> drawn[c]]
    /\ \A c \in Classifiers : drawn[c] \in [DOMAIN drawn[c] -> Nat]
    /\ lock \in Classifiers \cup {None}
    /\ backups \subseteq Backup
    /\ timeline \in Nat /\ timelines \in Nat
    /\ restoring \in BOOLEAN
    /\ client \in Client

\* The advisory lock is held by whoever drew values, and by nobody in a restore.
Serialized ==
    /\ \A c \in Classifiers : drawn[c] # NoValues <=> lock = c
    /\ restoring => lock = None

\* Committed rows have different values, none is past the sequence, and what is
\* stale has none yet.
Numbered(seq, last, waiting) ==
    /\ \A e \in Effects : seq[e] <= last
    /\ \A e, f \in Effects : seq[e] = seq[f] /\ seq[e] > 0 => e = f
    /\ \A e \in waiting : seq[e] = 0

\* The values of an open transaction come after those of every committed row.
Coming(values) ==
    /\ DOMAIN values \subseteq stale
    /\ \A e \in DOMAIN values :
          values[e] <= last_issued /\ \A f \in Effects : uncertain_seq[f] < values[e]
    /\ \A e, f \in DOMAIN values : values[e] = values[f] => e = f

\* Two moments of one timeline, p with the sequence at i and q with it at j: what
\* the one numbered up to the other's last value, the other numbered alike.
Same(p, i, q, j) ==
    \A e \in Effects : /\ p[e] > 0 /\ p[e] <= j => q[e] = p[e]
                       /\ q[e] > 0 /\ q[e] <= i => p[e] = q[e]

\* A backup of the present timeline: it has its epoch, and unless the database was
\* just replaced it is an earlier moment, with every value drawn after it.
Present(b) ==
    /\ b.restore_epoch = restore_epoch
    /\ Same(b.uncertain_seq, b.last_issued, uncertain_seq, last_issued)
    /\ ~restoring => b.last_issued <= last_issued
    /\ \A c \in Classifiers : \A e \in DOMAIN drawn[c] : b.last_issued < drawn[c][e]

OneTimeline(b, d) ==
    /\ b.restore_epoch = d.restore_epoch
    /\ Same(b.uncertain_seq, b.last_issued, d.uncertain_seq, d.last_issued)

BackupsOK ==
    /\ \A b \in backups :
          /\ b.timeline <= timelines
          /\ Numbered(b.uncertain_seq, b.last_issued, b.stale)
          /\ b.timeline = timeline => Present(b)
    /\ \A b, d \in backups : b.timeline = d.timeline => OneTimeline(b, d)

\* Every row of seq up to position s was listed.
Listed(seq, s) ==
    \A e \in Effects : seq[e] > 0 /\ seq[e] <= s => <<e, seq[e]>> \in client.listed

\* The rows of the database up to s were listed, and no other will come there.
Covered(s) ==
    /\ Listed(uncertain_seq, s)
    /\ \A c \in Classifiers : \A e \in DOMAIN drawn[c] : s < drawn[c][e]

\* The walk has listed what is before its cursor, in the database and in every
\* backup of its timeline, because any of them may be restored.
WalkOK ==
    /\ \A b \in backups :
          b.timeline = client.timeline /\ b.restore_epoch = client.cursor.epoch
              /\ client.cursor.seq <= b.last_issued
              => Listed(b.uncertain_seq, client.cursor.seq)
    /\ client.at = "between" /\ client.timeline = timeline
          /\ client.cursor.epoch = restore_epoch =>
              /\ ~restoring => client.cursor.seq <= last_issued
              /\ client.cursor.seq <= last_issued => Covered(client.cursor.seq)
    /\ client.at = "reading" =>
          client.cursor.seq <= last_issued /\ Covered(client.cursor.seq)

ListingInvariant ==
    /\ ListingTypeOK
    /\ Serialized
    /\ Numbered(uncertain_seq, last_issued, stale)
    /\ \A c \in Classifiers : Coming(drawn[c])
    /\ timeline <= timelines /\ client.timeline <= timelines
    /\ BackupsOK
    /\ client.at # "ended" /\ ~client.crossed => WalkOK
-----------------------------------------------------------------------------
\* Counting.

LEMMA FiniteEffects ==
    ASSUME NEW S, S \subseteq Effects
    PROVE  IsFiniteSet(S) /\ Cardinality(S) \in Nat
<1>1. IsFiniteSet(S)
  BY EffectsAssumption, FS_Subset
<1> QED
  BY <1>1, FS_CardinalityType

\* A part of finitely many has no more, and fewer if one is left out.
LEMMA Fewer ==
    ASSUME NEW T, IsFiniteSet(T), NEW S, S \subseteq T
    PROVE  /\ IsFiniteSet(S) /\ Cardinality(S) \in Nat /\ Cardinality(T) \in Nat
           /\ Cardinality(S) <= Cardinality(T)
           /\ S # T => Cardinality(S) < Cardinality(T)
<1>1. IsFiniteSet(S) /\ Cardinality(S) <= Cardinality(T)
      /\ (Cardinality(S) = Cardinality(T) => S = T)
  BY FS_Subset
<1>2. Cardinality(S) \in Nat /\ Cardinality(T) \in Nat
  BY <1>1, FS_CardinalityType
<1> QED
  BY <1>1, <1>2

\* The values a statement draws are new and different.
LEMMA ValuesFacts ==
    ASSUME last_issued \in Nat, NEW S, S \subseteq Effects
    PROVE  /\ DOMAIN Values(S) = S /\ Values(S) \in [S -> Nat]
           /\ \A e \in S : /\ last_issued < Values(S)[e]
                           /\ Values(S)[e] <= last_issued + Cardinality(S)
           /\ \A e, f \in S : Values(S)[e] = Values(S)[f] => e = f
<1> DEFINE UpTo(e) == {x \in S : x <= e}
<1>1. IsFiniteSet(S) /\ Cardinality(S) \in Nat
  BY FiniteEffects
<1>2. S \subseteq Nat
  BY EffectsAssumption
<1>3. ASSUME NEW e \in S
      PROVE  Cardinality(UpTo(e)) \in Nat \ {0} /\ Cardinality(UpTo(e)) <= Cardinality(S)
  <2>1. e \in UpTo(e) /\ UpTo(e) \subseteq S
    BY <1>2, <1>3
  <2>2. IsFiniteSet(UpTo(e)) /\ Cardinality(UpTo(e)) \in Nat
        /\ Cardinality(UpTo(e)) <= Cardinality(S)
    BY <1>1, <2>1, Fewer
  <2>3. Cardinality(UpTo(e)) # 0
    BY <2>1, <2>2, FS_EmptySet
  <2> QED
    BY <2>2, <2>3
<1>4. ASSUME NEW e \in S, NEW f \in S, e < f
      PROVE  Cardinality(UpTo(e)) < Cardinality(UpTo(f))
  <2>a. e \in Nat /\ f \in Nat /\ \A x \in S : x \in Nat
    BY <1>2
  <2>b. \A x \in S : x <= e => x <= f
    BY <1>4, <2>a
  <2>c. f <= f /\ ~(f <= e)
    BY <1>4, <2>a
  <2>1. UpTo(e) \subseteq UpTo(f) /\ f \in UpTo(f) /\ f \notin UpTo(e)
    BY <1>4, <2>b, <2>c
  <2>2. IsFiniteSet(UpTo(f))
    BY <1>1, Fewer
  <2> QED
    BY <2>1, <2>2, Fewer
<1>5. DOMAIN Values(S) = S /\ \A e \in S : Values(S)[e] = last_issued + Cardinality(UpTo(e))
  BY DEF Values
<1>6. Values(S) = [e \in S |-> last_issued + Cardinality(UpTo(e))]
  BY DEF Values
<1> HIDE DEF UpTo
<1>7. \A e \in S : last_issued < Values(S)[e] /\ Values(S)[e] <= last_issued + Cardinality(S)
                   /\ Values(S)[e] \in Nat
  BY <1>1, <1>3, <1>5
<1>8. \A e, f \in S : Values(S)[e] = Values(S)[f] => e = f
  BY <1>2, <1>3, <1>4, <1>5
<1>9. Values(S) \in [S -> Nat]
  BY <1>6, <1>7
<1> QED
  BY <1>5, <1>7, <1>8, <1>9
-----------------------------------------------------------------------------
\* The initial states and the classifying sessions.

LEMMA ListingInit == Init => ListingInvariant
<1> SUFFICES ASSUME Init PROVE ListingInvariant
  OBVIOUS
<1>1. DOMAIN NoValues = {} /\ NoValues \in [{} -> Nat]
  BY DEF NoValues
<1>2. \A c \in Classifiers : drawn[c] = NoValues /\ lock # c
  BY NoneIsNoEffect DEF Init
<1>3. ListingTypeOK
  <2>1. client \in Client
    BY DEF Init, NewWalk, NoCursor, Client, Cursor
  <2> QED
    BY <1>1, <1>2, <2>1 DEF Init, ListingTypeOK
<1>4. WalkOK
  BY <1>1, <1>2 DEF Init, NewWalk, NoCursor, WalkOK, Covered, Listed
<1> QED
  BY <1>1, <1>2, <1>3, <1>4
     DEF Init, NewWalk, ListingInvariant, Serialized, Numbered, Coming, BackupsOK

LEMMA StaleStep ==
    ASSUME ListingInvariant, NEW e \in Effects, BecomeStale(e)
    PROVE  ListingInvariant'
<1>1. ListingTypeOK'
  BY DEF ListingInvariant, ListingTypeOK, BecomeStale, sessions, recovery
<1>2. Numbered(uncertain_seq, last_issued, stale)'
  BY DEF ListingInvariant, BecomeStale, Numbered
<1>3. \A c \in Classifiers : Coming(drawn[c])'
  BY DEF ListingInvariant, BecomeStale, Coming, sessions
<1>4. client.at # "ended" /\ ~client.crossed => WalkOK'
  BY DEF ListingInvariant, BecomeStale, WalkOK, Covered, Listed, sessions, recovery
<1>5. Serialized' /\ BackupsOK'
  BY DEF ListingInvariant, BecomeStale, Serialized, BackupsOK, Present, OneTimeline, Same,
         sessions, recovery
<1> QED
  BY <1>1, <1>2, <1>3, <1>4, <1>5 DEF ListingInvariant, BecomeStale, recovery

LEMMA ClassifyStep ==
    ASSUME ListingInvariant, NEW c \in Classifiers, ClassifyChunk(c)
    PROVE  ListingInvariant'
<1>1. PICK S \in SUBSET stale :
          /\ S # {}
          /\ drawn' = [drawn EXCEPT ![c] = Values(S)]
          /\ last_issued' = last_issued + Cardinality(S)
  BY DEF ClassifyChunk
<1>2. /\ ~restoring /\ lock = None /\ lock' = c
      /\ UNCHANGED <<stale, uncertain_seq, restore_epoch, backups, timeline, timelines,
                     restoring, client>>
  BY DEF ClassifyChunk, MayClassify, recovery
<1>3. ListingTypeOK
  BY DEF ListingInvariant
<1>4. S \subseteq Effects /\ Cardinality(S) \in Nat /\ last_issued \in Nat
  BY <1>3, FiniteEffects DEF ListingTypeOK
<1> DEFINE V == Values(S)
<1>5. /\ DOMAIN V = S /\ V \in [S -> Nat]
      /\ \A e \in S : last_issued < V[e] /\ V[e] <= last_issued'
      /\ \A e, f \in S : V[e] = V[f] => e = f
  BY <1>1, <1>4, ValuesFacts
<1> HIDE DEF V
<1>6. \A d \in Classifiers : drawn[d] = NoValues
  BY <1>2, NoneIsNoEffect DEF ListingInvariant, Serialized
<1>7. \A d \in Classifiers : drawn'[d] = IF d = c THEN V ELSE NoValues
  BY <1>1, <1>3, <1>6 DEF ListingTypeOK, V
<1>8. V # NoValues /\ DOMAIN NoValues = {} /\ NoValues \in [{} -> Nat]
  BY <1>1, <1>5 DEF NoValues
<1>9. last_issued' \in Nat /\ last_issued <= last_issued'
  BY <1>1, <1>4
<1>10. ListingTypeOK'
  <2>1. drawn' = [d \in Classifiers |-> drawn'[d]]
    BY <1>1, <1>3 DEF ListingTypeOK
  <2>2. \A d \in Classifiers : drawn'[d] \in [DOMAIN drawn'[d] -> Nat]
    BY <1>5, <1>7, <1>8
  <2> QED
    BY <1>2, <1>3, <1>9, <2>1, <2>2 DEF ListingTypeOK
<1>11. Serialized'
  BY <1>2, <1>7, <1>8, NoneIsNoEffect DEF Serialized
<1>12. Numbered(uncertain_seq, last_issued, stale)'
  <2>1. Numbered(uncertain_seq, last_issued, stale)
    BY DEF ListingInvariant
  <2> QED
    BY <1>2, <1>3, <1>4, <1>9, <2>1 DEF Numbered, ListingTypeOK
<1>13. \A d \in Classifiers : Coming(drawn[d])'
  <2>1. \A f \in Effects : uncertain_seq[f] \in Nat /\ uncertain_seq[f] <= last_issued
    BY <1>3 DEF ListingInvariant, ListingTypeOK, Numbered
  <2>2. \A e \in S : V[e] \in Nat
    BY <1>5
  <2>3. \A e \in S, f \in Effects : uncertain_seq[f] < V[e]
    BY <1>4, <1>5, <2>1, <2>2
  <2> QED
    BY <1>1, <1>2, <1>5, <1>7, <1>8, <2>3 DEF Coming
<1>14. BackupsOK'
  <2>1. ASSUME NEW b \in backups, b.timeline = timeline PROVE Present(b)'
    <3>1. Present(b) /\ b.last_issued <= last_issued /\ b.last_issued \in Nat
          /\ \A e \in Effects : b.uncertain_seq[e] \in Nat
                               /\ b.uncertain_seq[e] <= b.last_issued
      BY <1>2, <1>3, <2>1 DEF ListingInvariant, BackupsOK, Present, ListingTypeOK, Backup,
                              Numbered
    <3>2. Same(b.uncertain_seq, b.last_issued, uncertain_seq, last_issued)'
      BY <1>2, <1>4, <3>1 DEF Present, Same
    <3>3. \A e \in S : b.last_issued < V[e]
      BY <1>4, <1>5, <3>1
    <3> QED
      BY <1>2, <1>4, <1>5, <1>7, <1>8, <1>9, <3>1, <3>2, <3>3 DEF Present
  <2> QED
    BY <1>2, <2>1 DEF ListingInvariant, BackupsOK, OneTimeline
<1>15. ASSUME client.at # "ended", ~client.crossed PROVE WalkOK'
  <2>1. WalkOK
    BY <1>15 DEF ListingInvariant
  <2>t. client.cursor.epoch \in Nat /\ client.cursor.seq \in Nat
    BY <1>3 DEF ListingTypeOK, Client, Cursor
  <2>2. ASSUME Covered(client.cursor.seq), client.cursor.seq <= last_issued
        PROVE  Covered(client.cursor.seq)'
    <3>1. \A e \in S : client.cursor.seq < V[e]
      BY <1>4, <1>5, <2>t, <2>2
    <3> QED
      BY <1>2, <1>5, <1>7, <1>8, <2>2, <3>1 DEF Covered, Listed
  <2>3. ASSUME client.at = "between", client.timeline = timeline,
               client.cursor.epoch = restore_epoch
        PROVE  client.cursor.seq <= last_issued /\ Covered(client.cursor.seq)
    BY <1>2, <2>1, <2>3 DEF WalkOK
  <2>4. client.cursor.seq <= last_issued => client.cursor.seq <= last_issued'
    BY <1>4, <1>9, <2>t
  <2> QED
    BY <1>2, <2>1, <2>2, <2>3, <2>4 DEF WalkOK, Listed
<1> QED
  BY <1>2, <1>10, <1>11, <1>12, <1>13, <1>14, <1>15 DEF ListingInvariant

LEMMA CommitStep ==
    ASSUME ListingInvariant, NEW c \in Classifiers, CommitChunk(c)
    PROVE  ListingInvariant'
<1> DEFINE V == drawn[c]
<1>1. ListingTypeOK
  BY DEF ListingInvariant
<1>2. /\ drawn[c] # NoValues /\ lock = c /\ lock' = None /\ ~restoring
      /\ \A d \in Classifiers : d # c => drawn[d] = NoValues
  BY NoneIsNoEffect DEF ListingInvariant, Serialized, CommitChunk
<1>3. /\ stale' = stale \ DOMAIN V
      /\ uncertain_seq' = [e \in Effects |-> IF e \in DOMAIN V THEN V[e] ELSE uncertain_seq[e]]
      /\ drawn' = [drawn EXCEPT ![c] = NoValues]
      /\ UNCHANGED <<last_issued, restore_epoch, backups, timeline, timelines,
                     restoring, client>>
  BY DEF CommitChunk, recovery
<1>4. DOMAIN NoValues = {} /\ NoValues \in [{} -> Nat]
  BY DEF NoValues
<1>5. \A d \in Classifiers : drawn'[d] = NoValues
  BY <1>1, <1>2, <1>3 DEF ListingTypeOK
<1>6. Coming(V) /\ V \in [DOMAIN V -> Nat]
  BY <1>1 DEF ListingInvariant, ListingTypeOK
<1>7. DOMAIN V \subseteq Effects /\ DOMAIN V \subseteq stale
  BY <1>1, <1>6 DEF Coming, ListingTypeOK
<1> HIDE DEF V
<1>8. /\ \A e \in DOMAIN V : uncertain_seq'[e] = V[e] /\ uncertain_seq[e] = 0 /\ V[e] \in Nat
      /\ \A e \in Effects \ DOMAIN V : uncertain_seq'[e] = uncertain_seq[e]
      /\ \A e \in Effects : uncertain_seq[e] \in Nat /\ uncertain_seq'[e] \in Nat
  BY <1>1, <1>3, <1>6, <1>7 DEF ListingTypeOK, ListingInvariant, Numbered
<1>9. ListingTypeOK'
  <2>1. uncertain_seq' \in [Effects -> Nat]
    BY <1>3, <1>8
  <2>2. drawn' = [d \in Classifiers |-> drawn'[d]]
    BY <1>1, <1>3 DEF ListingTypeOK
  <2> QED
    BY <1>1, <1>2, <1>3, <1>4, <1>5, <2>1, <2>2 DEF ListingTypeOK
<1>10. Serialized'
  BY <1>2, <1>5, NoneIsNoEffect DEF Serialized
<1>11. Numbered(uncertain_seq, last_issued, stale)'
  <2>1. \A e \in Effects : uncertain_seq'[e] <= last_issued
    BY <1>6, <1>8 DEF Coming, ListingInvariant, Numbered
  <2>2. ASSUME NEW e \in Effects, NEW f \in Effects, uncertain_seq'[e] = uncertain_seq'[f],
               uncertain_seq'[e] > 0
        PROVE  e = f
    <3>1. CASE e \in DOMAIN V /\ f \in DOMAIN V
      BY <1>6, <1>8, <2>2, <3>1 DEF Coming
    <3>2. CASE e \in DOMAIN V /\ f \notin DOMAIN V
      BY <1>6, <1>8, <2>2, <3>2 DEF Coming
    <3>3. CASE e \notin DOMAIN V /\ f \in DOMAIN V
      BY <1>6, <1>8, <2>2, <3>3 DEF Coming
    <3>4. CASE e \notin DOMAIN V /\ f \notin DOMAIN V
      BY <1>8, <2>2, <3>4 DEF ListingInvariant, Numbered
    <3> QED
      BY <3>1, <3>2, <3>3, <3>4
  <2>3. \A e \in stale' : uncertain_seq'[e] = 0
    BY <1>1, <1>3, <1>8 DEF ListingInvariant, Numbered, ListingTypeOK
  <2> QED
    BY <1>3, <2>1, <2>2, <2>3 DEF Numbered
<1>12. \A d \in Classifiers : Coming(drawn[d])'
  BY <1>4, <1>5 DEF Coming
<1>13. BackupsOK'
  <2>1. ASSUME NEW b \in backups, b.timeline = timeline PROVE Present(b)'
    <3>1. Present(b) /\ b.last_issued <= last_issued /\ b.last_issued \in Nat
          /\ \A e \in Effects : b.uncertain_seq[e] \in Nat
                               /\ b.uncertain_seq[e] <= b.last_issued
      BY <1>1, <1>2, <2>1 DEF ListingInvariant, BackupsOK, Present, ListingTypeOK, Backup,
                              Numbered
    <3>2. Same(b.uncertain_seq, b.last_issued, uncertain_seq, last_issued)
          /\ \A e \in DOMAIN V : b.last_issued < V[e]
      BY <3>1 DEF Present, V
    <3>t. last_issued \in Nat
      BY <1>1 DEF ListingTypeOK
    <3>3. Same(b.uncertain_seq, b.last_issued, uncertain_seq, last_issued)'
      <4>1. ASSUME NEW e \in Effects, e \in DOMAIN V
            PROVE  /\ ~(b.uncertain_seq[e] > 0)
                   /\ ~(uncertain_seq'[e] <= b.last_issued)
        BY <1>8, <3>1, <3>2, <3>t, <4>1 DEF Same
      <4> QED
        BY <1>3, <1>8, <3>2, <4>1 DEF Same
    <3> QED
      BY <1>3, <1>4, <1>5, <3>1, <3>3 DEF Present
  <2> QED
    BY <1>3, <2>1 DEF ListingInvariant, BackupsOK, OneTimeline
<1>14. ASSUME client.at # "ended", ~client.crossed PROVE WalkOK'
  <2>1. WalkOK
    BY <1>14 DEF ListingInvariant
  <2>t. client.cursor.seq \in Nat
    BY <1>1 DEF ListingTypeOK, Client, Cursor
  <2>2. ASSUME Covered(client.cursor.seq) PROVE Covered(client.cursor.seq)'
    <3>1. \A e \in DOMAIN V : client.cursor.seq < V[e]
      BY <2>2 DEF Covered, V
    <3>2. ASSUME NEW e \in Effects, uncertain_seq'[e] > 0, uncertain_seq'[e] <= client.cursor.seq
          PROVE  <<e, uncertain_seq'[e]>> \in client.listed
      <4>1. e \notin DOMAIN V
        BY <1>8, <2>t, <3>1, <3>2
      <4> QED
        BY <1>8, <2>2, <3>2, <4>1 DEF Covered, Listed
    <3> QED
      BY <1>3, <1>4, <1>5, <3>2 DEF Covered, Listed
  <2> QED
    BY <1>3, <2>1, <2>2 DEF WalkOK, Listed
<1> QED
  BY <1>3, <1>9, <1>10, <1>11, <1>12, <1>13, <1>14 DEF ListingInvariant

LEMMA RollbackStep ==
    ASSUME ListingInvariant, NEW c \in Classifiers, RollbackChunk(c)
    PROVE  ListingInvariant'
<1>1. ListingTypeOK
  BY DEF ListingInvariant
<1>2. /\ lock = c /\ lock' = None /\ ~restoring
      /\ \A d \in Classifiers : d # c => drawn[d] = NoValues
  BY NoneIsNoEffect DEF ListingInvariant, Serialized, RollbackChunk
<1>3. /\ drawn' = [drawn EXCEPT ![c] = NoValues]
      /\ UNCHANGED <<stale, uncertain_seq, last_issued, restore_epoch, backups, timeline,
                     timelines, restoring, client>>
  BY DEF RollbackChunk, recovery, database
<1>4. DOMAIN NoValues = {} /\ NoValues \in [{} -> Nat]
  BY DEF NoValues
<1>5. \A d \in Classifiers : drawn'[d] = NoValues
  BY <1>1, <1>2, <1>3 DEF ListingTypeOK
<1>6. ListingTypeOK'
  <2>1. drawn' = [d \in Classifiers |-> drawn'[d]]
    BY <1>1, <1>3 DEF ListingTypeOK
  <2> QED
    BY <1>1, <1>2, <1>3, <1>4, <1>5, <2>1 DEF ListingTypeOK
<1>7. Serialized' /\ \A d \in Classifiers : Coming(drawn[d])'
  BY <1>2, <1>3, <1>4, <1>5, NoneIsNoEffect DEF Serialized, Coming
<1>8. Numbered(uncertain_seq, last_issued, stale)' /\ BackupsOK'
  BY <1>3, <1>4, <1>5 DEF ListingInvariant, Numbered, BackupsOK, Present, OneTimeline
<1>9. ASSUME client.at # "ended", ~client.crossed PROVE WalkOK'
  BY <1>3, <1>4, <1>5, <1>9 DEF ListingInvariant, WalkOK, Covered, Listed
<1> QED
  BY <1>3, <1>6, <1>7, <1>8, <1>9 DEF ListingInvariant
-----------------------------------------------------------------------------
\* The client.

LEMMA ClientType ==
    ASSUME ListingTypeOK
    PROVE  /\ client.at \in {"between", "reading", "ended"}
           /\ client.cursor.epoch \in Nat /\ client.cursor.seq \in Nat
           /\ client.epoch \in Nat /\ client.listed \subseteq Effects \X Nat
           /\ client.crossed \in BOOLEAN /\ client.timeline \in Nat
           /\ timeline \in Nat /\ timelines \in Nat
           /\ last_issued \in Nat /\ restore_epoch \in Nat
           /\ \A e \in Effects : uncertain_seq[e] \in Nat
           /\ \A c \in Classifiers : \A e \in DOMAIN drawn[c] : drawn[c][e] \in Nat
BY DEF ListingTypeOK, Client, Cursor

\* Nothing but the client moves.
LEMMA ClientMoves ==
    ASSUME ListingInvariant, UNCHANGED <<database, sessions, recovery>>,
           client' \in Client, client'.timeline <= timelines,
           (client.at # "ended" /\ ~client.crossed => WalkOK)'
    PROVE  ListingInvariant'
<1>1. UNCHANGED <<stale, uncertain_seq, last_issued, restore_epoch, drawn, lock,
                  backups, timeline, timelines, restoring>>
  BY DEF database, sessions, recovery
<1>2. ListingTypeOK'
  BY <1>1 DEF ListingInvariant, ListingTypeOK
<1>3. Serialized' /\ Numbered(uncertain_seq, last_issued, stale)' /\ BackupsOK'
  BY <1>1 DEF ListingInvariant, Serialized, Numbered, BackupsOK, Present, OneTimeline
<1>4. \A c \in Classifiers : Coming(drawn[c])'
  BY <1>1 DEF ListingInvariant, Coming
<1> QED
  BY <1>1, <1>2, <1>3, <1>4 DEF ListingInvariant

\* A walk that begins has covered nothing.
LEMMA NewWalkOK ==
    ASSUME ListingInvariant, UNCHANGED <<database, sessions, recovery>>, client' = NewWalk
    PROVE  ListingInvariant'
<1>t. ListingTypeOK
  BY DEF ListingInvariant
<1>1. client' \in Client
  BY DEF NewWalk, NoCursor, Client, Cursor
<1>2. /\ client'.cursor.seq = 0 /\ client'.cursor.epoch = 0 /\ client'.at = "between"
      /\ client'.timeline = 0
  BY DEF NewWalk, NoCursor
<1>3. UNCHANGED <<uncertain_seq, last_issued, restore_epoch, drawn, backups, timeline,
                  restoring>>
  BY DEF database, sessions, recovery
<1>4. \A c \in Classifiers : \A e \in DOMAIN drawn[c] : 0 < drawn[c][e]
  BY <1>t, ClientType DEF ListingInvariant, Coming, ListingTypeOK
<1>5. Covered(0)'
  BY <1>t, <1>3, <1>4, ClientType DEF Covered, Listed
<1>6. \A b \in backups : Listed(b.uncertain_seq, 0)'
  BY <1>t DEF Listed, ListingTypeOK, Backup
<1>7. WalkOK'
  BY <1>t, <1>2, <1>3, <1>5, <1>6, ClientType DEF WalkOK
<1> QED
  BY <1>t, <1>1, <1>2, <1>7, ClientMoves, ClientType

LEMMA TimelineStep == ASSUME ListingInvariant, ReadTimeline PROVE ListingInvariant'
<1>t. ListingTypeOK
  BY DEF ListingInvariant
<1>u. UNCHANGED <<database, sessions, recovery>>
  BY DEF ReadTimeline
<1>1. CASE client' = NewWalk
  BY <1>1, <1>u, NewWalkOK
<1>2. CASE /\ client.cursor = NoCursor \/ ~Refused(client.cursor)
           /\ client' = [client EXCEPT !.at = "reading", !.epoch = restore_epoch,
                                       !.crossed = @ \/ Forked]
  <2>1. /\ client'.at = "reading" /\ client'.epoch = restore_epoch
        /\ client'.cursor = client.cursor /\ client'.listed = client.listed
        /\ client'.timeline = client.timeline
        /\ client'.crossed = (client.crossed \/ Forked)
    BY <1>t, <1>2 DEF ListingTypeOK, Client
  <2>2. client' \in Client
    <3>1. client.crossed \/ Forked \in BOOLEAN
      BY DEF Forked
    <3> HIDE DEF Forked
    <3> QED
      BY <1>t, <1>2, <3>1 DEF ListingTypeOK, Client
  <2>3. UNCHANGED <<uncertain_seq, last_issued, restore_epoch, drawn, backups>>
    BY <1>u DEF database, sessions, recovery
  <2>4. ASSUME ~client'.crossed PROVE WalkOK'
    <3>1. client.at = "between" /\ WalkOK /\ ~Forked
      BY <2>1, <2>4 DEF ListingInvariant, ReadTimeline
    <3>2. Covered(client.cursor.seq) /\ client.cursor.seq <= last_issued
      <4>1. CASE client.cursor = NoCursor
        <5>1. client.cursor.seq = 0
          BY <4>1 DEF NoCursor
        <5>2. \A c \in Classifiers : \A e \in DOMAIN drawn[c] : 0 < drawn[c][e]
          BY <1>t, ClientType DEF ListingInvariant, Coming, ListingTypeOK
        <5> QED
          BY <1>t, <5>1, <5>2, ClientType DEF Covered, Listed
      <4>2. CASE client.cursor # NoCursor /\ ~Refused(client.cursor)
        <5>1. client.cursor.epoch = restore_epoch /\ client.cursor.seq <= last_issued
          BY <1>t, <4>2, ClientType DEF Refused
        <5>2. client.timeline = timeline
          BY <3>1, <4>2, <5>1 DEF Forked
        <5> QED
          BY <3>1, <5>1, <5>2 DEF WalkOK
      <4> QED
        BY <1>2, <4>1, <4>2
    <3>3. Covered(client.cursor.seq)'
      BY <2>1, <2>3, <3>2 DEF Covered, Listed
    <3> QED
      BY <2>1, <2>3, <3>1, <3>2, <3>3 DEF WalkOK, Listed
  <2> QED
    BY <1>u, <2>1, <2>2, <2>4, ClientMoves DEF ListingInvariant
<1> QED
  BY <1>1, <1>2 DEF ReadTimeline

LEMMA RestartStep == ASSUME ListingInvariant, Restart PROVE ListingInvariant'
BY NewWalkOK DEF Restart

-----------------------------------------------------------------------------
\* Pages.

LEMMA Least ==
    ASSUME NEW S, S \subseteq Nat, S # {}
    PROVE  \E n \in S : \A m \in S : n <= m
<1> DEFINE R == OpToRel(<, Nat)
<1>1. \A x, y \in Nat : y < x => <<y, x>> \in R
  BY DEF OpToRel
<1>2. IsWellFoundedOn(R, Nat)
  BY NatLessThanWellFounded
<1> HIDE DEF R
<1>3. PICK x \in S : \A y \in S : ~(<<y, x>> \in R)
  BY <1>2, WFMin
<1>4. \A y \in S : ~(y < x)
  BY <1>1, <1>3
<1> QED
  BY <1>4, SMT

\* Rows, and where they are in the listing.
LEMMA Ranks ==
    ASSUME ListingTypeOK, NEW rows, rows \subseteq Effects
    PROVE  /\ IsFiniteSet(rows)
           /\ \A e \in rows : /\ IsFiniteSet(Behind(e, rows)) /\ Behind(e, rows) \subseteq rows
                              /\ Cardinality(Behind(e, rows)) \in Nat
           /\ \A e, x \in rows : uncertain_seq[e] <= uncertain_seq[x] =>
                 Cardinality(Behind(e, rows)) <= Cardinality(Behind(x, rows))
<1>1. \A e \in rows : uncertain_seq[e] \in Nat
  BY ClientType
<1>2. \A e \in rows : Behind(e, rows) \subseteq rows
  BY DEF Behind
<1>3. \A e \in rows : IsFiniteSet(Behind(e, rows)) /\ Cardinality(Behind(e, rows)) \in Nat
  BY <1>2, FiniteEffects
<1>4. ASSUME NEW e \in rows, NEW x \in rows, uncertain_seq[e] <= uncertain_seq[x]
      PROVE  Cardinality(Behind(e, rows)) <= Cardinality(Behind(x, rows))
  <2>1. \A y \in rows : uncertain_seq[y] < uncertain_seq[e] => uncertain_seq[y] < uncertain_seq[x]
    BY <1>1, <1>4
  <2>2. Behind(e, rows) \subseteq Behind(x, rows)
    BY <2>1 DEF Behind
  <2> QED
    BY <1>3, <2>2, Fewer
<1> QED
  BY <1>2, <1>3, <1>4, FiniteEffects

\* The first and the last of some rows.
LEMMA Ends ==
    ASSUME ListingInvariant, NEW rows, rows \subseteq Effects, rows # {}
    PROVE  /\ \E e \in rows : \A x \in rows : uncertain_seq[e] <= uncertain_seq[x]
           /\ \E e \in rows : \A x \in rows : uncertain_seq[x] <= uncertain_seq[e]
<1>1. /\ last_issued \in Nat
      /\ \A e \in rows : uncertain_seq[e] \in Nat /\ uncertain_seq[e] <= last_issued
  BY ClientType DEF ListingInvariant, Numbered
<1>2. \E e \in rows : \A x \in rows : uncertain_seq[e] <= uncertain_seq[x]
  <2> DEFINE S == {uncertain_seq[e] : e \in rows}
  <2>1. PICK n \in S : \A m \in S : n <= m
    BY <1>1, Least
  <2>2. PICK e \in rows : n = uncertain_seq[e]
    BY <2>1
  <2>3. \A x \in rows : uncertain_seq[x] \in S
    OBVIOUS
  <2> QED
    BY <2>1, <2>2, <2>3
<1>3. \E e \in rows : \A x \in rows : uncertain_seq[x] <= uncertain_seq[e]
  <2> DEFINE S == {last_issued - uncertain_seq[e] : e \in rows}
  <2>1. S \subseteq Nat /\ S # {}
    BY <1>1
  <2>2. PICK n \in S : \A m \in S : n <= m
    BY <2>1, Least
  <2>3. PICK e \in rows : n = last_issued - uncertain_seq[e]
    BY <2>2
  <2>4. \A x \in rows : last_issued - uncertain_seq[x] \in S
    OBVIOUS
  <2>5. \A x \in rows : n <= last_issued - uncertain_seq[x]
    BY <2>2, <2>4
  <2> HIDE DEF S
  <2>6. \A x \in rows : uncertain_seq[x] <= uncertain_seq[e]
    BY <1>1, <2>3, <2>5
  <2> QED
    BY <2>6
<1> QED
  BY <1>2, <1>3

PageOf(fetched) == {e \in fetched : Cardinality(Behind(e, fetched)) < PageLimit}

\* A page is the first of the rows it is taken from; there is one while there are
\* rows; and a query that finds no row past its page has found all of them.
LEMMA Pages ==
    ASSUME ListingInvariant, NEW rows, rows \subseteq Uncertain
    PROVE  /\ PageOf(Fetched(rows)) \subseteq Fetched(rows) /\ Fetched(rows) \subseteq rows
           /\ \A x \in PageOf(Fetched(rows)), e \in rows :
                 uncertain_seq[e] <= uncertain_seq[x] => e \in PageOf(Fetched(rows))
           /\ Fetched(rows) # PageOf(Fetched(rows)) => PageOf(Fetched(rows)) # {}
           /\ Fetched(rows) = PageOf(Fetched(rows)) => rows = Fetched(rows)
<1> DEFINE F == Fetched(rows)
           P == PageOf(F)
<1>t. ListingTypeOK
  BY DEF ListingInvariant
<1>1. rows \subseteq Effects /\ F \subseteq rows /\ P \subseteq F
  BY DEF Uncertain, Fetched, PageOf
<1>2. PageLimit \in Nat \ {0}
  BY LimitAssumption
<1>3. \A e \in rows : e \in F <=> Cardinality(Behind(e, rows)) < PageLimit + 1
  BY DEF Fetched
<1>4. \A e \in F : e \in P <=> Cardinality(Behind(e, F)) < PageLimit
  BY DEF PageOf
<1>d. \A e, f \in rows : uncertain_seq[e] \in Nat /\ (uncertain_seq[e] = uncertain_seq[f] => e = f)
  BY <1>t, <1>1, ClientType DEF ListingInvariant, Numbered, Uncertain
<1> HIDE DEF F, P
<1>r. /\ \A e \in rows : Cardinality(Behind(e, rows)) \in Nat
      /\ \A e, x \in rows : uncertain_seq[e] <= uncertain_seq[x] =>
            Cardinality(Behind(e, rows)) <= Cardinality(Behind(x, rows))
  BY <1>t, <1>1, Ranks
<1>f. /\ \A e \in F : Cardinality(Behind(e, F)) \in Nat
      /\ \A e, x \in F : uncertain_seq[e] <= uncertain_seq[x] =>
            Cardinality(Behind(e, F)) <= Cardinality(Behind(x, F))
  BY <1>t, <1>1, Ranks
<1>5. ASSUME NEW x \in P, NEW e \in rows, uncertain_seq[e] <= uncertain_seq[x] PROVE e \in P
  <2>1. x \in F /\ x \in rows
    BY <1>1
  <2>2. e \in F
    BY <1>2, <1>3, <1>5, <1>r, <2>1
  <2> QED
    BY <1>2, <1>4, <1>5, <1>f, <2>1, <2>2
<1>6. ASSUME F # P PROVE P # {}
  <2>1. F # {} /\ F \subseteq Effects
    BY <1>1, <1>6
  <2>2. PICK e \in F : \A x \in F : uncertain_seq[e] <= uncertain_seq[x]
    BY <2>1, Ends
  <2>3. \A x \in F : ~(uncertain_seq[x] < uncertain_seq[e])
    BY <1>1, <1>d, <2>2
  <2>4. Behind(e, F) = {}
    BY <2>3 DEF Behind
  <2> QED
    BY <1>2, <1>4, <2>4, FS_EmptySet
<1>7. ASSUME F = P PROVE rows = F
  <2> SUFFICES ASSUME rows \ F # {} PROVE FALSE
    BY <1>1
  <2>1. PICK x \in rows \ F : \A y \in rows \ F : uncertain_seq[x] <= uncertain_seq[y]
    BY <1>1, Ends
  <2> DEFINE B == Behind(x, rows)
  <2>2. \A y \in B : y \in rows /\ uncertain_seq[y] < uncertain_seq[x]
    BY DEF Behind
  <2>3. B \subseteq F
    BY <1>d, <2>1, <2>2
  <2>4. IsFiniteSet(B) /\ Cardinality(B) \in Nat /\ ~(Cardinality(B) < PageLimit + 1)
    BY <1>t, <1>1, <1>3, <2>1, Ranks
  <2> HIDE DEF B
  <2>5. B # {} /\ B \subseteq Effects
    BY <1>1, <1>2, <2>3, <2>4, FS_EmptySet
  <2>6. PICK y \in B : \A z \in B : uncertain_seq[z] <= uncertain_seq[y]
    BY <2>5, Ends
  <2>7. B \ {y} \subseteq Behind(y, F)
    <3>1. \A z \in B \ {y} : uncertain_seq[z] < uncertain_seq[y]
      BY <1>1, <1>d, <2>3, <2>6
    <3> QED
      BY <2>3, <3>1 DEF Behind
  <2>8. Cardinality(B \ {y}) = Cardinality(B) - 1
    BY <2>4, <2>6, FS_RemoveElement
  <2>9. IsFiniteSet(Behind(y, F))
    BY <1>t, <1>1, <2>3, <2>6, Ranks
  <2>10. Cardinality(B \ {y}) <= Cardinality(Behind(y, F))
    BY <2>7, <2>9, Fewer
  <2>11. y \in F /\ Cardinality(Behind(y, F)) \in Nat
    BY <1>f, <2>3, <2>6
  <2> QED
    BY <1>2, <1>4, <1>7, <2>4, <2>8, <2>10, <2>11
<1> QED
  BY <1>1, <1>5, <1>6, <1>7 DEF F, P

\* The next cursor is the last row of the page.
LEMMA NextIs ==
    ASSUME ListingInvariant, NEW page, page \subseteq Effects, page # {},
           NEW epoch, NEW fetched
    PROVE  /\ NextCursor(epoch, fetched, page).epoch = epoch
           /\ \E x \in page : NextCursor(epoch, fetched, page).seq = uncertain_seq[x]
           /\ \A e \in page : uncertain_seq[e] <= NextCursor(epoch, fetched, page).seq
           /\ NextCursor(epoch, fetched, page) =
                 [epoch |-> epoch, seq |-> NextCursor(epoch, fetched, page).seq]
<1> DEFINE Cs == [epoch : {epoch}, seq : {uncertain_seq[e] : e \in page}]
           n == NextCursor(epoch, fetched, page)
<1>1. PICK x \in page : \A e \in page : uncertain_seq[e] <= uncertain_seq[x]
  BY Ends
<1>2. [epoch |-> epoch, seq |-> uncertain_seq[x]] \in Cs
  OBVIOUS
<1>3. \A e \in page : uncertain_seq[e] <= [epoch |-> epoch, seq |-> uncertain_seq[x]].seq
  BY <1>1
<1>4. \E c \in Cs : \A e \in page : uncertain_seq[e] <= c.seq
  BY <1>2, <1>3
<1>5. n \in Cs /\ \A e \in page : uncertain_seq[e] <= n.seq
  BY <1>4 DEF NextCursor
<1> HIDE DEF n
<1>6. n.epoch = epoch /\ n.seq \in {uncertain_seq[e] : e \in page}
      /\ n = [epoch |-> n.epoch, seq |-> n.seq]
  BY <1>5
<1> QED
  BY <1>5, <1>6 DEF n

LEMMA ReadPageStep ==
    ASSUME ListingInvariant, ReadPage
    PROVE  ListingInvariant'
<1> DEFINE rows == After(client.cursor)
           fetched == Fetched(rows)
           page == PageOf(fetched)
           listed == client.listed \cup {<<e, uncertain_seq[e]>> : e \in page}
           next == NextCursor(client.epoch, fetched, page)
<1>t. ListingTypeOK
  BY DEF ListingInvariant
<1>1. /\ client.at = "reading"
      /\ client' = IF fetched = page
                   THEN [client EXCEPT !.at = "ended", !.listed = listed]
                   ELSE [client EXCEPT !.at = "between", !.listed = listed,
                                       !.timeline = timeline, !.cursor = next]
      /\ UNCHANGED <<database, sessions, recovery>>
  BY DEF ReadPage, PageOf
<1>2. rows \subseteq Uncertain /\ page \subseteq rows /\ rows \subseteq Effects
  BY Pages DEF After, Uncertain
<1>3. listed \subseteq Effects \X Nat
  BY <1>t, <1>2, ClientType
<1>4. CASE fetched = page
  <2>1. client' = [client EXCEPT !.at = "ended", !.listed = listed]
    BY <1>1, <1>4
  <2> HIDE DEF listed
  <2>2. client' \in Client /\ client'.at = "ended" /\ client'.timeline = client.timeline
    BY <1>t, <1>3, <2>1 DEF ListingTypeOK, Client
  <2> QED
    BY <1>1, <2>2, ClientMoves DEF ListingInvariant
<1>5. CASE fetched # page
  <2>1. client' = [client EXCEPT !.at = "between", !.listed = listed,
                                 !.timeline = timeline, !.cursor = next]
    BY <1>1, <1>5
  <2>2. page # {} /\ page \subseteq Effects
    BY <1>2, <1>5, Pages
  <2>3. /\ next.epoch = client.epoch
        /\ \E x \in page : next.seq = uncertain_seq[x]
        /\ \A e \in page : uncertain_seq[e] <= next.seq
        /\ next = [epoch |-> client.epoch, seq |-> next.seq]
    BY <2>2, NextIs
  <2>l. \A e \in page : <<e, uncertain_seq[e]>> \in listed
    OBVIOUS
  <2>m. client.listed \subseteq listed
    OBVIOUS
  <2>p. \A x \in page, e \in rows : uncertain_seq[e] <= uncertain_seq[x] => e \in page
    BY <1>2, Pages
  <2>r. \A e \in Uncertain : uncertain_seq[e] > client.cursor.seq => e \in rows
    BY DEF After
  <2> HIDE DEF rows, fetched, page, listed, next
  <2>4. PICK x \in page : next.seq = uncertain_seq[x]
    BY <2>3
  <2>5. next.seq \in Nat /\ next.seq <= last_issued /\ next \in Cursor
    <3>1. next.seq \in Nat
      BY <1>t, <2>2, <2>4, ClientType
    <3>2. next.seq <= last_issued
      BY <2>2, <2>4 DEF ListingInvariant, Numbered
    <3>3. client.epoch \in Nat
      BY <1>t, ClientType
    <3>4. [epoch |-> client.epoch, seq |-> next.seq] \in Cursor
      BY <3>1, <3>3 DEF Cursor
    <3> QED
      BY <2>3, <3>1, <3>2, <3>4
  <2>6. client' \in Client
    BY <1>t, <1>3, <2>1, <2>5 DEF ListingTypeOK, Client
  <2>7. /\ client'.at = "between" /\ client'.listed = listed /\ client'.cursor = next
        /\ client'.crossed = client.crossed /\ client'.timeline = timeline
    BY <1>t, <2>1 DEF ListingTypeOK, Client
  <2>8. UNCHANGED <<uncertain_seq, last_issued, restore_epoch, drawn, backups, timeline,
                    restoring>>
    BY <1>1 DEF database, sessions, recovery
  <2>9. ASSUME ~client.crossed PROVE WalkOK'
    <3>1. Covered(client.cursor.seq)
      BY <1>1, <2>9 DEF ListingInvariant, WalkOK
    <3>2. ASSUME NEW e \in Effects, uncertain_seq[e] > 0, uncertain_seq[e] <= next.seq
          PROVE  <<e, uncertain_seq[e]>> \in listed
      <4>1. CASE uncertain_seq[e] <= client.cursor.seq
        BY <2>m, <3>1, <3>2, <4>1 DEF Covered, Listed
      <4>2. CASE ~(uncertain_seq[e] <= client.cursor.seq)
        <5>1. e \in rows
          BY <1>t, <2>r, <3>2, <4>2, ClientType DEF Uncertain
        <5> QED
          BY <2>4, <2>l, <2>p, <3>2, <5>1
      <4> QED
        BY <4>1, <4>2
    <3>3. \A c \in Classifiers : \A e \in DOMAIN drawn[c] : next.seq < drawn[c][e]
      BY <2>2, <2>4 DEF ListingInvariant, Coming
    <3>4. Covered(client.cursor.seq)'
      BY <2>7, <2>8, <3>2, <3>3 DEF Covered, Listed
    <3>5. ASSUME NEW b \in backups, b.timeline = timeline, next.seq <= b.last_issued
          PROVE  Listed(b.uncertain_seq, client.cursor.seq)'
      <4>1. Same(b.uncertain_seq, b.last_issued, uncertain_seq, last_issued)
        BY <3>5 DEF ListingInvariant, BackupsOK, Present
      <4>2. b.last_issued \in Nat /\ \A e \in Effects : b.uncertain_seq[e] \in Nat
        BY <1>t DEF ListingTypeOK, Backup
      <4>3. \A e \in Effects : b.uncertain_seq[e] > 0 /\ b.uncertain_seq[e] <= next.seq
                => uncertain_seq[e] = b.uncertain_seq[e]
        BY <1>t, <2>5, <4>1, <4>2, ClientType DEF Same
      <4> QED
        BY <2>7, <3>2, <4>3 DEF Listed
    <3> QED
      BY <2>5, <2>7, <2>8, <3>4, <3>5 DEF WalkOK
  <2> QED
    BY <1>1, <2>6, <2>7, <2>9, ClientMoves DEF ListingInvariant
<1> QED
  BY <1>4, <1>5
-----------------------------------------------------------------------------
\* Backups and restores.

LEMMA TakeBackupStep ==
    ASSUME ListingInvariant, TakeBackup
    PROVE  ListingInvariant'
<1>t. ListingTypeOK
  BY DEF ListingInvariant
<1> PICK m : m = Moment
  OBVIOUS
<1>1. /\ ~restoring /\ backups' = backups \cup {m}
      /\ UNCHANGED <<stale, uncertain_seq, last_issued, restore_epoch, drawn, lock,
                     timeline, timelines, restoring, client>>
  BY DEF TakeBackup, database, sessions
<1>2. /\ m.stale = stale /\ m.uncertain_seq = uncertain_seq
      /\ m.last_issued = last_issued /\ m.restore_epoch = restore_epoch
      /\ m.timeline = timeline /\ m \in Backup
  BY <1>t DEF ListingTypeOK, Backup, Moment
<1>3. \A c \in Classifiers : DOMAIN drawn[c] = {}
  BY DEF TakeBackup, Idle, NoValues
<1>4. ListingTypeOK'
  BY <1>t, <1>1, <1>2 DEF ListingTypeOK
<1>5. Serialized' /\ Numbered(uncertain_seq, last_issued, stale)'
      /\ \A c \in Classifiers : Coming(drawn[c])'
  BY <1>1 DEF ListingInvariant, Serialized, Numbered, Coming
<1>6. last_issued \in Nat /\ \A e \in Effects : uncertain_seq[e] \in Nat
  BY <1>t, ClientType
<1>7. BackupsOK'
  <2>1. \A b \in backups : b.timeline = timeline => Present(b) /\ b.last_issued <= last_issued
    BY <1>1 DEF ListingInvariant, BackupsOK, Present
  <2>2. OneTimeline(m, m) /\ Present(m)'
    BY <1>1, <1>2, <1>3, <1>6 DEF OneTimeline, Present, Same
  <2>3. ASSUME NEW b \in backups, b.timeline = timeline
        PROVE  OneTimeline(b, m) /\ OneTimeline(m, b)
    BY <1>2, <2>1, <2>3 DEF OneTimeline, Present, Same
  <2>4. Numbered(m.uncertain_seq, m.last_issued, m.stale)
        /\ m.timeline <= timelines
    BY <1>2 DEF ListingInvariant
  <2>5. \A b \in backups : b.timeline = timeline => Present(b)'
    BY <1>1, <2>1 DEF Present
  <2> QED
    BY <1>1, <1>2, <2>2, <2>3, <2>4, <2>5 DEF ListingInvariant, BackupsOK, OneTimeline
<1>8. ASSUME client.at # "ended", ~client.crossed PROVE WalkOK'
  <2>1. WalkOK
    BY <1>8 DEF ListingInvariant
  <2>2. ASSUME client.timeline = timeline, restore_epoch = client.cursor.epoch,
               client.cursor.seq <= last_issued
        PROVE  Listed(uncertain_seq, client.cursor.seq)
    BY <1>t, <1>8, <2>1, <2>2, ClientType DEF WalkOK, Covered
  <2>3. \A c \in Classifiers : \A e \in DOMAIN drawn'[c] : FALSE
    BY <1>1, <1>3
  <2> QED
    BY <1>1, <1>2, <2>1, <2>2, <2>3 DEF WalkOK, Covered, Listed
<1> QED
  BY <1>1, <1>4, <1>5, <1>7, <1>8 DEF ListingInvariant

\* What a restore brings back of the cursor's timeline is what its pages showed.
LEMMA LoadBackupStep ==
    ASSUME ListingInvariant, NEW b \in backups, LoadBackup(b)
    PROVE  ListingInvariant'
<1>t. ListingTypeOK
  BY DEF ListingInvariant
<1>1. /\ restoring' = TRUE /\ timeline' = b.timeline
      /\ stale' = b.stale /\ uncertain_seq' = b.uncertain_seq
      /\ last_issued' = b.last_issued /\ restore_epoch' = b.restore_epoch
      /\ UNCHANGED <<drawn, lock, backups, timelines>>
  BY DEF LoadBackup, sessions
<1>2. client' = [client EXCEPT !.at = IF @ = "reading" THEN "between" ELSE @]
  BY DEF LoadBackup
<1>3. \A c \in Classifiers : drawn[c] = NoValues /\ DOMAIN drawn[c] = {}
  BY DEF LoadBackup, Idle, NoValues
<1>4. b \in Backup
  BY <1>t DEF ListingTypeOK
<1>5. client' \in Client
  BY <1>t, <1>2 DEF ListingTypeOK, Client
<1>6. /\ client'.at = (IF client.at = "reading" THEN "between" ELSE client.at)
      /\ client'.crossed = client.crossed /\ client'.timeline = client.timeline
      /\ client'.cursor = client.cursor /\ client'.listed = client.listed
  BY <1>t, <1>2 DEF ListingTypeOK, Client
<1>7. ListingTypeOK'
  BY <1>t, <1>1, <1>4, <1>5 DEF ListingTypeOK, Backup
<1>8. Serialized'
  BY <1>t, <1>1, <1>3 DEF ListingInvariant, Serialized, ListingTypeOK
<1>9. Numbered(uncertain_seq, last_issued, stale)'
  BY <1>1 DEF ListingInvariant, BackupsOK, Numbered
<1>10. \A c \in Classifiers : Coming(drawn[c])'
  BY <1>1, <1>3 DEF Coming
<1>11. BackupsOK' /\ (timeline <= timelines /\ client.timeline <= timelines)'
  <2>1. \A d \in backups : d.timeline = b.timeline => OneTimeline(d, b)
    BY DEF ListingInvariant, BackupsOK
  <2>2. \A d \in backups : d.timeline = b.timeline => Present(d)'
    BY <1>1, <1>3, <2>1 DEF OneTimeline, Present
  <2> QED
    BY <1>1, <1>6, <2>2 DEF ListingInvariant, BackupsOK, OneTimeline
<1>12. ASSUME (client.at # "ended" /\ ~client.crossed)' PROVE WalkOK'
  <2>1. WalkOK /\ client'.at = "between"
    BY <1>t, <1>6, <1>12, ClientType DEF ListingInvariant
  <2> QED
    BY <1>1, <1>3, <1>6, <2>1 DEF WalkOK, Covered, Listed
<1> QED
  BY <1>7, <1>8, <1>9, <1>10, <1>11, <1>12 DEF ListingInvariant

\* A timeline begins that no cursor and no backup is of; a page being read goes on.
LEMMA ActivateStep ==
    ASSUME ListingInvariant, ActivateRestore
    PROVE  ListingInvariant'
<1> DEFINE V == Values(stale)
<1>t. ListingTypeOK
  BY DEF ListingInvariant
<1>1. /\ restoring /\ restoring' = FALSE /\ stale' = {}
      /\ restore_epoch' = restore_epoch + 1
      /\ last_issued' = last_issued + Cardinality(stale)
      /\ uncertain_seq' = [e \in Effects |-> IF e \in stale THEN V[e] ELSE uncertain_seq[e]]
      /\ timeline' = timelines + 1 /\ timelines' = timelines + 1
      /\ UNCHANGED <<drawn, lock, backups, client>>
  BY DEF ActivateRestore, sessions
<1>2. stale \subseteq Effects /\ last_issued \in Nat /\ restore_epoch \in Nat
  BY <1>t DEF ListingTypeOK
<1>3. Cardinality(stale) \in Nat
  BY <1>2, FiniteEffects
<1>4. /\ V \in [stale -> Nat]
      /\ \A e \in stale : last_issued < V[e] /\ V[e] <= last_issued + Cardinality(stale)
      /\ \A e, f \in stale : V[e] = V[f] => e = f
  BY <1>2, ValuesFacts
<1> HIDE DEF V
<1>5. \A c \in Classifiers : drawn[c] = NoValues
  BY <1>1, NoneIsNoEffect DEF ListingInvariant, Serialized
<1>6. \A c \in Classifiers : DOMAIN drawn[c] = {}
  BY <1>5 DEF NoValues
<1>7. /\ \A e \in stale : uncertain_seq'[e] = V[e] /\ V[e] \in Nat
      /\ \A e \in Effects \ stale : uncertain_seq'[e] = uncertain_seq[e]
      /\ \A e \in Effects : /\ uncertain_seq[e] \in Nat /\ uncertain_seq'[e] \in Nat
                            /\ uncertain_seq[e] <= last_issued
  BY <1>t, <1>1, <1>2, <1>4, ClientType DEF ListingInvariant, Numbered
<1>8. ListingTypeOK'
  <2>1. uncertain_seq' \in [Effects -> Nat]
    BY <1>1, <1>7
  <2>2. last_issued' \in Nat /\ restore_epoch' \in Nat
        /\ timeline' \in Nat /\ timelines' \in Nat
    BY <1>t, <1>1, <1>2, <1>3, ClientType
  <2>3. stale' \subseteq Effects /\ restoring' \in BOOLEAN
    BY <1>1
  <2> QED
    BY <1>t, <1>1, <2>1, <2>2, <2>3 DEF ListingTypeOK
<1>9. Serialized'
  BY <1>1 DEF ListingInvariant, Serialized
<1>10. Numbered(uncertain_seq, last_issued, stale)'
  <2>1. \A e \in Effects : uncertain_seq'[e] <= last_issued'
    BY <1>1, <1>2, <1>3, <1>4, <1>7
  <2>2. ASSUME NEW e \in Effects, NEW f \in Effects, uncertain_seq'[e] = uncertain_seq'[f],
               uncertain_seq'[e] > 0
        PROVE  e = f
    <3>1. CASE e \in stale /\ f \in stale
      BY <1>4, <1>7, <2>2, <3>1
    <3>2. CASE e \in stale /\ f \notin stale
      BY <1>2, <1>4, <1>7, <2>2, <3>2
    <3>3. CASE e \notin stale /\ f \in stale
      BY <1>2, <1>4, <1>7, <2>2, <3>3
    <3>4. CASE e \notin stale /\ f \notin stale
      BY <1>7, <2>2, <3>4 DEF ListingInvariant, Numbered
    <3> QED
      BY <3>1, <3>2, <3>3, <3>4
  <2> QED
    BY <1>1, <2>1, <2>2 DEF Numbered
<1>11. \A c \in Classifiers : Coming(drawn[c])'
  BY <1>1, <1>6 DEF Coming
<1>12. BackupsOK' /\ (timeline <= timelines /\ client.timeline <= timelines)'
       /\ client.timeline # timeline'
  <2>1. timelines \in Nat /\ client.timeline \in Nat /\ client.timeline <= timelines
    BY <1>t, ClientType DEF ListingInvariant
  <2>2. \A b \in backups : b.timeline \in Nat /\ b.timeline <= timelines
    BY <1>t DEF ListingInvariant, BackupsOK, ListingTypeOK, Backup
  <2>3. \A b \in backups : b.timeline <= timelines' /\ b.timeline # timeline'
    BY <1>1, <2>1, <2>2
  <2> QED
    BY <1>1, <2>1, <2>3 DEF ListingInvariant, BackupsOK, OneTimeline
<1>13. ASSUME client.at # "ended", ~client.crossed PROVE WalkOK'
  <2>1. WalkOK /\ client.cursor.seq \in Nat
    BY <1>t, <1>13, ClientType DEF ListingInvariant
  <2>2. ASSUME client.at = "reading"
        PROVE  client.cursor.seq <= last_issued' /\ Covered(client.cursor.seq)'
    <3>1. client.cursor.seq <= last_issued /\ Covered(client.cursor.seq)
      BY <2>1, <2>2 DEF WalkOK
    <3>2. ASSUME NEW e \in Effects, uncertain_seq'[e] > 0, uncertain_seq'[e] <= client.cursor.seq
          PROVE  <<e, uncertain_seq'[e]>> \in client.listed
      <4>1. e \notin stale
        BY <1>2, <1>4, <1>7, <2>1, <3>1, <3>2
      <4> QED
        BY <1>7, <3>1, <3>2, <4>1 DEF Covered, Listed
    <3>3. Covered(client.cursor.seq)'
      BY <1>1, <1>6, <3>2 DEF Covered, Listed
    <3> QED
      BY <1>1, <1>2, <1>3, <2>1, <3>1, <3>3
  <2> QED
    BY <1>1, <1>12, <2>1, <2>2 DEF WalkOK, Listed
<1> QED
  BY <1>1, <1>8, <1>9, <1>10, <1>11, <1>12, <1>13 DEF ListingInvariant
-----------------------------------------------------------------------------
\* The theorems.

LEMMA ListingNext == ListingInvariant /\ [Next]_listingVars => ListingInvariant'
<1> SUFFICES ASSUME ListingInvariant, [Next]_listingVars PROVE ListingInvariant'
  OBVIOUS
<1>1. ASSUME NEW e \in Effects, BecomeStale(e) PROVE ListingInvariant'
  BY <1>1, StaleStep
<1>2. ASSUME NEW c \in Classifiers, ClassifyChunk(c) \/ CommitChunk(c) \/ RollbackChunk(c)
      PROVE  ListingInvariant'
  BY <1>2, ClassifyStep, CommitStep, RollbackStep
<1>3. CASE ReadTimeline \/ ReadPage \/ Restart
  BY <1>3, TimelineStep, ReadPageStep, RestartStep
<1>4. CASE TakeBackup \/ ActivateRestore
  BY <1>4, TakeBackupStep, ActivateStep
<1>6. ASSUME NEW b \in backups, LoadBackup(b) PROVE ListingInvariant'
  BY <1>6, LoadBackupStep
<1>5. CASE UNCHANGED listingVars
  <2>1. UNCHANGED <<database, sessions, recovery>> /\ client' = client
    BY <1>5 DEF listingVars
  <2>2. UNCHANGED <<uncertain_seq, last_issued, restore_epoch, drawn, backups, timeline,
                    restoring>>
    BY <2>1 DEF database, sessions, recovery
  <2>3. client' \in Client /\ client'.timeline <= timelines
    BY <2>1 DEF ListingInvariant, ListingTypeOK
  <2>4. (client.at # "ended" /\ ~client.crossed => WalkOK)'
    BY <2>1, <2>2 DEF ListingInvariant, WalkOK, Covered, Listed
  <2> QED
    BY <2>1, <2>3, <2>4, ClientMoves
<1> QED
  BY <1>1, <1>2, <1>3, <1>4, <1>5, <1>6 DEF Next

\* The listing's inductive invariant: types, one transaction that draws values
\* at a time, values that are unique and come after every committed one, backups
\* that agree with each other and with the database as far as they are of one
\* timeline, and a walk that has listed what is before its cursor there.
THEOREM Listing == Spec => []ListingInvariant
<1> QED
  BY ListingInit, ListingNext, PTL DEF Spec

\* A cursor that ListUncertainEffectsPage accepts hides no uncertain row of the
\* timeline it was issued in, whatever was classified, rolled back or restored since
\* the client was given it and however many backups there are.  Nothing is said of
\* a cursor used in another timeline that was given the same epoch.
THEOREM NothingHidden == Spec => []CursorHidesNothing
<1>1. ListingInvariant => CursorHidesNothing
  <2> SUFFICES ASSUME ListingInvariant, client.at = "between", client.cursor # NoCursor,
                      ~Refused(client.cursor), ~Forked, ~client.crossed,
                      NEW e \in Uncertain, uncertain_seq[e] <= client.cursor.seq
               PROVE  <<e, uncertain_seq[e]>> \in client.listed
    BY DEF CursorHidesNothing
  <2>1. client.cursor.epoch = restore_epoch /\ client.cursor.seq <= last_issued
    BY ClientType DEF ListingInvariant, Refused
  <2>2. client.timeline = timeline
    BY <2>1 DEF Forked
  <2>3. Covered(client.cursor.seq)
    BY <2>1, <2>2 DEF ListingInvariant, WalkOK
  <2> QED
    BY <2>3 DEF Covered, Listed, Uncertain
<1> QED
  BY <1>1, Listing, PTL

\* A client that is told there is no next page was given every uncertain row, unless
\* a cursor of its walk was used in another timeline that was given the same epoch.
THEOREM WholeWalk == Spec => WalkIsComplete
<1> DEFINE Complete == client.at = "reading" /\ client'.at = "ended" /\ ~client.crossed
                          => \A e \in Uncertain : <<e, uncertain_seq[e]>> \in client'.listed
<1>1. ListingInvariant /\ [Next]_listingVars => [Complete]_listingVars
  <2> SUFFICES ASSUME ListingInvariant, Next, client.at = "reading", client'.at = "ended",
                      ~client.crossed
               PROVE  \A e \in Uncertain : <<e, uncertain_seq[e]>> \in client'.listed
    OBVIOUS
  <2> DEFINE rows == After(client.cursor)
             fetched == Fetched(rows)
             page == PageOf(fetched)
             listed == client.listed \cup {<<e, uncertain_seq[e]>> : e \in page}
             next == NextCursor(client.epoch, fetched, page)
  <2>t. ListingTypeOK
    BY DEF ListingInvariant
  <2>1. ReadPage
    <3>1. \A c \in Classifiers : ~ClassifyChunk(c) /\ ~CommitChunk(c) /\ ~RollbackChunk(c)
      BY DEF ClassifyChunk, CommitChunk, RollbackChunk
    <3>2. \A e \in Effects : ~BecomeStale(e)
      BY DEF BecomeStale
    <3>3. ~ReadTimeline /\ ~Restart /\ ~TakeBackup /\ ~ActivateRestore
      BY DEF ReadTimeline, Restart, TakeBackup, ActivateRestore
    <3>4. \A b \in backups : ~LoadBackup(b)
      BY <2>t DEF LoadBackup, ListingTypeOK, Client
    <3> QED
      BY <3>1, <3>2, <3>3, <3>4 DEF Next
  <2>2. client' = IF fetched = page
                  THEN [client EXCEPT !.at = "ended", !.listed = listed]
                  ELSE [client EXCEPT !.at = "between", !.listed = listed,
                                      !.timeline = timeline, !.cursor = next]
    BY <2>1 DEF ReadPage, PageOf
  <2> HIDE DEF next
  <2>3. fetched = page /\ client'.listed = listed
    <3> HIDE DEF listed, fetched, page
    <3> QED
      BY <2>t, <2>2 DEF ListingTypeOK, Client
  <2>4. rows = page
    BY <2>3, Pages DEF After
  <2>5. Covered(client.cursor.seq)
    BY DEF ListingInvariant, WalkOK
  <2>6. \A e \in Uncertain : ~(uncertain_seq[e] <= client.cursor.seq) => e \in rows
    BY <2>t, ClientType DEF After, Uncertain
  <2> QED
    BY <2>3, <2>4, <2>5, <2>6 DEF Covered, Listed, Uncertain
<1> QED
  BY <1>1, Listing, PTL DEF Spec, WalkIsComplete

=============================================================================
