---------------------------- MODULE ReviewClient ----------------------------
(***************************************************************************)
(* What the web client knows of an open review and how an answer lands on  *)
(* it: [review, revision, version, total, rows, cards, current]. A loaded  *)
(* row stands under its number; a card's content is the revision it was    *)
(* read at; 0 is no card and no review.                                    *)
(***************************************************************************)
EXTENDS Naturals, FiniteSets, Functions

IsCardRow(row) == "id" \in DOMAIN row
Loaded(state) == {state.rows[i].id : i \in {j \in DOMAIN state.rows : IsCardRow(state.rows[j])}}

InitialState ==
    [review |-> 0, revision |-> 0, version |-> 0, total |-> 0, current |-> 0,
     rows |-> [i \in {} |-> 0], cards |-> [c \in {} |-> 0]]

Foreign(state, u) == state.review # 0 /\ u.review # state.review
Stale(state, u) == u.revision < state.revision
Newer(state, u) == u.layout # <<>> /\ u.layout[1].version > state.version

(* The rows of a newer list land always, else two lists would mix.         *)
Lands(state, u) ==
    /\ u.layout # <<>>
    /\ \/ Newer(state, u)
       \/ ~Stale(state, u) /\ u.layout[1].version = state.version

Ignored(state, u) == Foreign(state, u) \/ (Stale(state, u) /\ ~Lands(state, u))

(* Something older lands: rows from an answer older than what the client   *)
(* knows, or a card older than the one a window brought meanwhile.         *)
Overtaken(state, u) ==
    /\ ~Foreign(state, u)
    /\ IF Stale(state, u) THEN Lands(state, u)
       ELSE \E c \in DOMAIN state.cards \cap DOMAIN u.cards : u.cards[c] < state.cards[c]

(* A newer list without replace: the answer that replaced it was lost or   *)
(* overtaken.                                                              *)
MissesReplace(state, u) ==
    ~Foreign(state, u) /\ Newer(state, u) /\ ~u.layout[1].replace

(* Mutant: only an answer that says so replaces the list.                  *)
ReplacesWhenTold(state, u) == u.layout[1].replace

(* Whether the rows and the cards there go when the answer's land.         *)
Replaces(state, u) == u.layout[1].replace \/ Newer(state, u)

WithoutKeys(f, gone) == [x \in DOMAIN f \ gone |-> f[x]]
Over(g, f) == [x \in DOMAIN f \cup DOMAIN g |-> IF x \in DOMAIN g THEN g[x] ELSE f[x]]

(* `window`: a read of a window, whose revision is not the client's;       *)
(* `keep`: the screen has moved on by itself.                              *)
Applied(state, u, window, keep) ==
    LET stale == Stale(state, u)
        lands == Lands(state, u)
        replace == lands /\ Replaces(state, u)
        removed == IF stale THEN {} ELSE u.removed
        current == IF stale \/ keep \/ u.focus = 0 THEN state.current ELSE u.focus
        rows == Over(IF lands THEN u.layout[1].rows ELSE <<>>,
                     IF replace THEN <<>> ELSE state.rows)
        lost == {i \in DOMAIN rows : IsCardRow(rows[i]) /\ rows[i].id \in removed}
        held == IF replace THEN [c \in DOMAIN state.cards \cap {current} |-> state.cards[c]]
                ELSE state.cards
        fresh == [c \in DOMAIN u.cards |->
                    IF stale /\ c \in DOMAIN state.cards THEN state.cards[c] ELSE u.cards[c]]
    IN  IF Ignored(state, u) THEN state
        ELSE [review |-> u.review,
              revision |-> IF window \/ stale THEN state.revision ELSE u.revision,
              version |-> IF lands THEN u.layout[1].version ELSE state.version,
              total |-> IF lands THEN u.layout[1].total ELSE state.total,
              rows |-> WithoutKeys(rows, lost),
              cards |-> WithoutKeys(Over(fresh, held), removed),
              current |-> current]

(* The rows around the current card are asked for: a replace was missed,   *)
(* or the new list came without the row of the card on the screen.         *)
NeedsRecenter(state, u, after) ==
    /\ ~Ignored(state, u)
    /\ after.current # 0
    /\ \/ MissesReplace(state, u)
       \/ /\ u.layout # <<>> /\ u.layout[1].replace
          /\ after.current \in DOMAIN after.cards
          /\ after.current \notin Loaded(after)

Reopened(u) == Applied(InitialState, u, FALSE, FALSE)
WithCurrent(state, id) == [state EXCEPT !.current = id]

=============================================================================
