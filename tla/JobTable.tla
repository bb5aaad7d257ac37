------------------------------ MODULE JobTable ------------------------------
(***************************************************************************)
(* The jobs table of the generation queue, and what each method of its     *)
(* repository (SqlaJobRepository) does to it.  A table is a function from  *)
(* the ids of its rows to the rows; every operator here is the effect of   *)
(* one SQL write, so a module that EXTENDS this one uses it inside an      *)
(* action that stands for one BEGIN IMMEDIATE transaction.                 *)
(*                                                                         *)
(* A key is what a job works on: its type with its phrase, else its word,  *)
(* else its source.  Rows are told apart only by id: the primary key has   *)
(* no AUTOINCREMENT, so SQLite hands out one more than the largest id in   *)
(* the table, and the id of a removed row comes back.                      *)
(***************************************************************************)
EXTENDS Integers, FiniteSets

CONSTANTS
    Keys,        \* what jobs work on, e.g. (MEANING, phrase 7)
    Types,       \* the kinds of jobs
    Sources,     \* the sources the phrases and words belong to
    TypeOf,      \* the type of a key's jobs
    SourceOf,    \* the source a key belongs to
    RunLimit,    \* how many jobs of a type are claimed together
    MixedTypes   \* the types whose run may span sources

ASSUME KeysAssumption ==
    /\ IsFiniteSet(Keys)
    /\ TypeOf \in [Keys -> Types]
    /\ SourceOf \in [Keys -> Sources]
    /\ RunLimit \in [Types -> Nat \ {0}]
    /\ MixedTypes \subseteq Types

(* Ids and clock readings are positive; 0 is a NULL started_at.            *)
JobIds == Nat \ {0}
NotStarted == 0

Row == [key : Keys,
        status : {"queued", "running", "failed"},
        created : Nat,
        started : Nat]

(* An unset field of a user's selection; an unset id is 0.                 *)
Any == "any"

-----------------------------------------------------------------------------
(* Reading a table.                                                        *)

WithStatus(t, status) == {i \in DOMAIN t : t[i].status = status}

Queued(t)  == WithStatus(t, "queued")
Running(t) == WithStatus(t, "running")
Failed(t)  == WithStatus(t, "failed")
Active(t)  == Queued(t) \cup Running(t)

KeysOf(t, ids) == {t[i].key : i \in ids}
HasRow(t, k) == \E i \in DOMAIN t : t[i].key = k

(* The rows a user's selection names: an unset field matches everything.   *)
Selected(t, sel) ==
    {i \in DOMAIN t : /\ sel.type \in {Any, TypeOf[t[i].key]}
                      /\ sel.source \in {Any, SourceOf[t[i].key]}
                      /\ sel.id \in {0, i}}

(* The queue's order: created_at, then id.                                 *)
Before(t, i, j) ==
    \/ t[i].created < t[j].created
    \/ t[i].created = t[j].created /\ i < j

-----------------------------------------------------------------------------
(* Changing a table.                                                       *)

Without(t, ids) == [i \in DOMAIN t \ ids |-> t[i]]

Moved(t, ids, status) ==
    [i \in DOMAIN t |->
        IF i \in ids THEN [t[i] EXCEPT !.status = status] ELSE t[i]]

NewRow(k, now) ==
    [key |-> k, status |-> "queued", created |-> now, started |-> NotStarted]

(* The greatest of a finite set of numbers, 0 of none.                     *)
Greatest(S) == CHOOSE top \in S \cup {0} : \A n \in S : n <= top

(* Only the order of created_at tells jobs apart, so "now" is a reading     *)
(* later than any in the table.                                            *)
Now(t) == Greatest({t[i].created : i \in DOMAIN t}) + 1

(* enqueue: of the keys asked for, the ones no active job works on get a   *)
(* new row, and their failed rows go first.  The call's order is the       *)
(* bijection `at` from the new ids to those keys.                          *)
FreshIfNotQueued(t, ks) == ks \ KeysOf(t, Queued(t))

Fresh(t, ks) == ks \ KeysOf(t, Active(t))

DropFailed(t, ks) == Without(t, {i \in Failed(t) : t[i].key \in ks})

TopId(t) == Greatest(DOMAIN t)

NewIds(t, n) == (TopId(t) + 1) .. (TopId(t) + n)

Placings(t, ks) ==
    LET ids == NewIds(DropFailed(t, ks), Cardinality(ks))
    IN  {at \in [ids -> ks] : /\ \A i, j \in ids : at[i] = at[j] => i = j
                             /\ \A k \in ks : \E i \in ids : at[i] = k}

Enqueue(t, at) ==
    LET kept == DropFailed(t, {at[i] : i \in DOMAIN at})
    IN  [i \in DOMAIN kept \cup DOMAIN at |->
            IF i \in DOMAIN at THEN NewRow(at[i], Now(t)) ELSE kept[i]]

(* claim_next_run: the oldest queued job and the ones right behind it that *)
(* share its type, and its source unless the type mixes sources.           *)
HeadOf(t) == CHOOSE h \in Queued(t) : \A i \in Queued(t) \ {h} : Before(t, h, i)

NextRun(t) ==
    LET h == HeadOf(t)
        type == TypeOf[t[h].key]
        ahead(i) == {j \in Queued(t) : Before(t, j, i)}
        joins(i) == /\ TypeOf[t[i].key] = type
                    /\ type \in MixedTypes \/ SourceOf[t[i].key] = SourceOf[t[h].key]
    IN  {i \in Queued(t) : /\ Cardinality(ahead(i)) < RunLimit[type]
                           /\ \A j \in ahead(i) \cup {i} : joins(j)}

Claimed(t, ids, stamp) ==
    [i \in DOMAIN t |->
        IF i \in ids THEN [t[i] EXCEPT !.status = "running", !.started = stamp]
        ELSE t[i]]

(* The claim as the worker keeps it: what a claimed job works on, and the  *)
(* time of the claim.                                                      *)
Claim == [key : Keys, started : Nat]

ClaimOf(t, ids) == [i \in ids |-> [key |-> t[i].key, started |-> t[i].started]]

StillRunning(t, run) == DOMAIN run \cap Running(t)

StillClaimed(t, run) ==
    {i \in DOMAIN run : /\ i \in Running(t)
                        /\ t[i].started = run[i].started}

CompleteByKey(t, run) ==
    LET keys == {run[i].key : i \in DOMAIN run}
    IN  Without(t, {i \in DOMAIN t : t[i].key \in keys})

(* complete: the rows go by id, and the failed rows of the same keys.      *)
Complete(t, run) ==
    LET rest == Without(t, DOMAIN run)
    IN  DropFailed(rest, {run[i].key : i \in DOMAIN run})

(* fail, fail_running: running rows only.                                  *)
Fail(t, ids) == Moved(t, ids \cap Running(t), "failed")

FailRunning(t, type) == Fail(t, {i \in DOMAIN t : TypeOf[t[i].key] = type})

RequeueAsWaiting(t, ids) == Moved(t, ids \cap Running(t), "waiting")

RequeueAtEnd(t, ids) ==
    [i \in DOMAIN t |->
        IF i \in ids \cap Running(t) THEN NewRow(t[i].key, Now(t)) ELSE t[i]]

(* requeue, requeue_running: running rows go back to their place in line.  *)
Requeue(t, ids) ==
    [i \in DOMAIN t |->
        IF i \in ids \cap Running(t)
        THEN [t[i] EXCEPT !.status = "queued", !.started = NotStarted]
        ELSE t[i]]

(* The user's actions.                                                     *)
Cancel(t, ids)  == Without(t, ids \cap Active(t))
Dismiss(t, ids) == Without(t, ids \cap Failed(t))

(* A failed job whose key is active by now, or was made so by an earlier   *)
(* one of the same retry, is dropped.                                      *)
RetryDropped(t, ids) ==
    {i \in ids \cap Failed(t) :
        \/ t[i].key \in KeysOf(t, Active(t))
        \/ \E j \in ids \cap Failed(t) : Before(t, j, i) /\ t[j].key = t[i].key}

Retry(t, ids) ==
    LET kept == Without(t, RetryDropped(t, ids))
    IN  [i \in DOMAIN kept |->
            IF i \in ids \cap Failed(kept)
            THEN NewRow(kept[i].key, Now(t))
            ELSE kept[i]]

-----------------------------------------------------------------------------
(* The table's own invariant: never two rows of one key, whatever their    *)
(* status (the port's "at most one active job per key", and a failed job   *)
(* never beside an active one).                                            *)
OneRowPerKey(t) ==
    \A i, j \in DOMAIN t : t[i].key = t[j].key => i = j

TableOK(t) ==
    /\ IsFiniteSet(DOMAIN t)
    /\ DOMAIN t \subseteq JobIds
    /\ t \in [DOMAIN t -> Row]

=============================================================================
