--------------------------- MODULE EffectListing ---------------------------
(***************************************************************************)
(* The operators' paged listing of uncertain effects: the classification   *)
(* sequence, the transactions that draw from it, the cursor a client keeps *)
(* between pages, and database restores underneath it.  Store.fs           *)
(* classifyChunk and ListUncertainEffectsPage, migration 0014.             *)
(*                                                                         *)
(* One organization.  A classification draws its sequence values in one    *)
(* statement and becomes visible at its commit; the sequence itself is not *)
(* transactional.  Which rows are stale is EffectLedger's subject.         *)
(***************************************************************************)
EXTENDS Naturals, FiniteSets

CONSTANTS
    Effects,        \* effect_checkpoints rows, numbered in the order of
                    \* (prepared_at, attempt_id, effect_key)
    Classifiers,    \* database sessions that run classification passes
    PageLimit,      \* the page size the client asks for
    ChunkSize,      \* classificationChunk
    MaxSeq,         \* bound: sequence values drawn
    MaxBackups,     \* bound: database backups kept
    MaxRestores,    \* bound: restores that are activated
    None

ASSUME EffectsAssumption == Effects \subseteq Nat /\ IsFiniteSet(Effects)
ASSUME LimitAssumption == PageLimit \in Nat \ {0} /\ ChunkSize \in Nat \ {0}
ASSUME ListingBounds == {MaxSeq, MaxBackups, MaxRestores} \subseteq Nat
ASSUME NoneIsNoEffect == None \notin Classifiers

VARIABLES
    stale,          \* prepared or applied rows without a live authority
    uncertain_seq,  \* per row; 0 is NULL, the row is not uncertain
    last_issued,    \* last value of effect_checkpoints_uncertain_seq
    restore_epoch,  \* controller_metadata.restore_epoch
    drawn,          \* per classifier, the values its open transaction drew
    lock,           \* holder of the organization's advisory lock
    backups,        \* the database backups that were kept, moments of timelines
    timeline,       \* history: which timeline this is, one per activated restore
    timelines,      \* history: how many restores were activated
    restoring,      \* a backup is loaded and not activated yet
    client          \* an operator walking the listing

database == <<stale, uncertain_seq, last_issued, restore_epoch>>
sessions == <<drawn, lock>>
recovery == <<backups, timeline, timelines, restoring>>
listingVars == <<database, sessions, recovery, client>>
-----------------------------------------------------------------------------
\* The sequence's next values, in preparation order.
Values(S) == [e \in S |-> last_issued + Cardinality({x \in S : x <= e})]
NoValues == [e \in {} |-> 0]
Idle == \A c \in Classifiers : drawn[c] = NoValues
Uncertain == {e \in Effects : uncertain_seq[e] > 0}

\* A cursor and, per walk, the rows it was given so far with their values.
\* History: the timeline its last page was read in, and whether a cursor was used
\* in another timeline that has the same epoch.
NoCursor == [epoch |-> 0, seq |-> 0]
NewWalk == [at |-> "between", cursor |-> NoCursor, epoch |-> 0, listed |-> {},
            timeline |-> 0, crossed |-> FALSE]

Init ==
    /\ stale = {}
    /\ uncertain_seq = [e \in Effects |-> 0]
    /\ last_issued = 0
    /\ restore_epoch = 0
    /\ drawn = [c \in Classifiers |-> NoValues]
    /\ lock = None
    /\ backups = {}
    /\ timeline = 0
    /\ timelines = 0
    /\ restoring = FALSE
    /\ client = NewWalk
-----------------------------------------------------------------------------
\* Classification.

\* A dispatch is cut off and its authority ends.  A number that is not in the
\* backup stands for another row in the restored timeline.
BecomeStale(e) ==
    /\ ~restoring /\ e \notin stale /\ uncertain_seq[e] = 0
    /\ stale' = stale \cup {e}
    /\ UNCHANGED <<uncertain_seq, last_issued, restore_epoch, sessions,
                   recovery, client>>

\* Mutant: classifications of one organization are not serialized.
MayClassify_Always(c) == drawn[c] = NoValues

\* The organization's advisory lock, held to commit.
MayClassify(c) == lock = None

\* The statement of classifyChunk: a chunk of the stale rows whose attempts no
\* other transaction has locked, each with the next value of the sequence.
ClassifyChunk(c) ==
    /\ ~restoring /\ MayClassify(c)
    /\ \E S \in SUBSET stale :
          /\ S # {} /\ Cardinality(S) <= ChunkSize
          /\ \A d \in Classifiers : S \cap DOMAIN drawn[d] = {}
          /\ last_issued + Cardinality(S) <= MaxSeq
          /\ drawn' = [drawn EXCEPT ![c] = Values(S)]
          /\ last_issued' = last_issued + Cardinality(S)
    /\ lock' = c
    /\ UNCHANGED <<stale, uncertain_seq, restore_epoch, recovery, client>>

CommitChunk(c) ==
    /\ drawn[c] # NoValues
    /\ stale' = stale \ DOMAIN drawn[c]
    /\ uncertain_seq' = [e \in Effects |->
           IF e \in DOMAIN drawn[c] THEN drawn[c][e] ELSE uncertain_seq[e]]
    /\ drawn' = [drawn EXCEPT ![c] = NoValues]
    /\ lock' = None
    /\ UNCHANGED <<last_issued, restore_epoch, recovery, client>>

\* A serialization failure or a lost connection; the values drawn are gone.
RollbackChunk(c) ==
    /\ drawn[c] # NoValues
    /\ drawn' = [drawn EXCEPT ![c] = NoValues]
    /\ lock' = None
    /\ UNCHANGED <<database, recovery, client>>
-----------------------------------------------------------------------------
\* ListUncertainEffectsPage: two reads of one READ COMMITTED transaction.

\* Mutant: the cursor's epoch is not compared.
Refused_ByPositionOnly(cursor) == cursor.seq > last_issued

\* A cursor of another timeline.
Refused(cursor) ==
    cursor.epoch # restore_epoch \/ cursor.seq > last_issued

\* The cursor is from another timeline, and this one was given the same epoch: an
\* activation counts from the epoch in the backup it restores.
Forked ==
    /\ client.cursor # NoCursor
    /\ client.timeline # timeline /\ client.cursor.epoch = restore_epoch

\* The read of epoch and sequence.  A refused client restarts the listing.
ReadTimeline ==
    /\ client.at = "between"
    /\ client' =
           IF client.cursor # NoCursor /\ Refused(client.cursor)
           THEN NewWalk
           ELSE [client EXCEPT !.at = "reading", !.epoch = restore_epoch,
                               !.crossed = @ \/ Forked]
    /\ UNCHANGED <<database, sessions, recovery>>

After(cursor) == {e \in Uncertain : uncertain_seq[e] > cursor.seq}
Behind(e, rows) == {x \in rows : uncertain_seq[x] < uncertain_seq[e]}

\* Mutant: the query asks for no row past the page.
Fetched_PageOnly(rows) ==
    {e \in rows : Cardinality(Behind(e, rows)) < PageLimit}

\* The query's LIMIT: one row past the page tells whether there is another.
Fetched(rows) ==
    {e \in rows : Cardinality(Behind(e, rows)) < PageLimit + 1}

\* Mutant: the cursor is the row that was fetched to look ahead.
NextCursor_LookAhead(epoch, fetched, page) ==
    CHOOSE cursor \in [epoch : {epoch}, seq : {uncertain_seq[e] : e \in fetched}] :
        \A e \in fetched : uncertain_seq[e] <= cursor.seq

NextCursor(epoch, fetched, page) ==
    CHOOSE cursor \in [epoch : {epoch}, seq : {uncertain_seq[e] : e \in page}] :
        \A e \in page : uncertain_seq[e] <= cursor.seq

ReadPage ==
    LET fetched == Fetched(After(client.cursor))
        page == {e \in fetched : Cardinality(Behind(e, fetched)) < PageLimit}
        listed == client.listed \cup {<<e, uncertain_seq[e]>> : e \in page}
    IN /\ client.at = "reading"
       /\ client' =
              IF fetched = page
              THEN [client EXCEPT !.at = "ended", !.listed = listed]
              ELSE [client EXCEPT
                       !.at = "between", !.listed = listed, !.timeline = timeline,
                       !.cursor = NextCursor(client.epoch, fetched, page)]
       /\ UNCHANGED <<database, sessions, recovery>>

Restart ==
    /\ client.at = "ended"
    /\ client' = NewWalk
    /\ UNCHANGED <<database, sessions, recovery>>
-----------------------------------------------------------------------------
\* Backups and restores; the writers are quiesced, a client keeps its cursor.

Moment == [stale |-> stale, uncertain_seq |-> uncertain_seq,
           last_issued |-> last_issued, restore_epoch |-> restore_epoch,
           timeline |-> timeline]

\* Every backup stays available, whatever is restored in between.
TakeBackup ==
    /\ ~restoring /\ Idle
    /\ Cardinality(backups) < MaxBackups
    /\ backups' = backups \cup {Moment}
    /\ UNCHANGED <<database, sessions, timeline, timelines, restoring, client>>

\* The database is replaced, which cuts off a page being read.
LoadBackup(b) ==
    /\ Idle
    /\ timelines < MaxRestores
    /\ b.last_issued + Cardinality(b.stale) <= MaxSeq
    /\ stale' = b.stale
    /\ uncertain_seq' = b.uncertain_seq
    /\ last_issued' = b.last_issued
    /\ restore_epoch' = b.restore_epoch
    /\ timeline' = b.timeline
    /\ restoring' = TRUE
    /\ client' = [client EXCEPT !.at = IF @ = "reading" THEN "between" ELSE @]
    /\ UNCHANGED <<sessions, backups, timelines>>

\* ActivateRestore advances the epoch and classifies what is stale under it.
ActivateRestore ==
    /\ restoring
    /\ restore_epoch' = restore_epoch + 1
    /\ uncertain_seq' = [e \in Effects |->
           IF e \in stale THEN Values(stale)[e] ELSE uncertain_seq[e]]
    /\ last_issued' = last_issued + Cardinality(stale)
    /\ stale' = {}
    /\ timeline' = timelines + 1
    /\ timelines' = timelines + 1
    /\ restoring' = FALSE
    /\ UNCHANGED <<sessions, backups, client>>
-----------------------------------------------------------------------------
Next ==
    \/ \E e \in Effects : BecomeStale(e)
    \/ \E c \in Classifiers : ClassifyChunk(c) \/ CommitChunk(c) \/ RollbackChunk(c)
    \/ ReadTimeline \/ ReadPage \/ Restart
    \/ TakeBackup \/ ActivateRestore
    \/ \E b \in backups : LoadBackup(b)

Spec == Init /\ [][Next]_listingVars
-----------------------------------------------------------------------------
\* A cursor the server still accepts hides nothing: every uncertain row at or
\* before it was on a page of this walk.  A row that commits behind a cursor would
\* be skipped for good.  The exception is a timeline with an epoch that another
\* already had, when two restores start from backups of one epoch: a cursor of the
\* one can be accepted in the other.
CursorHidesNothing ==
    client.at = "between" /\ client.cursor # NoCursor
        /\ ~Refused(client.cursor) /\ ~Forked /\ ~client.crossed
        => \A e \in Uncertain :
              uncertain_seq[e] <= client.cursor.seq
                  => <<e, uncertain_seq[e]>> \in client.listed

\* A walk that is told there is no next page was given every row there is, unless
\* one of its cursors was used across two timelines of one epoch.
WalkIsComplete ==
    [][client.at = "reading" /\ client'.at = "ended" /\ ~client.crossed =>
          \A e \in Uncertain : <<e, uncertain_seq[e]>> \in client'.listed]_listingVars
=============================================================================
