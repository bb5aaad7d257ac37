------------------------------- MODULE Review -------------------------------
(***************************************************************************)
(* A client with an open review, the server that holds it in memory and in *)
(* two files, and the projection other work writes. Requests and answers   *)
(* are delayed, overtake each other and get lost; memory lets the review   *)
(* go; the app dies between the writes of the two files.                   *)
(***************************************************************************)
EXTENDS OpenReview, ReviewClient

CONSTANTS
    FirstCards,    \* the cards live at the start, all in the Ready section
    RowsPerFetch,  \* ROWS_PER_FETCH
    MayLeave,      \* bound: the sources that leave the set and come back
    MayGo,         \* bound: the cards removed or decided elsewhere
    Askable,       \* bound: the kinds of requests the client sends
    MaxRevision, MaxActs, MaxFlight, MaxReviews, MaxReadBacks   \* bounds

VARIABLES
    stored,     \* the projection
    members,    \* the sources of the set
    held,       \* the store's memory: the review's id and the review
    files,      \* its folder: the heavy file, the light file
    mark,       \* the version the heavy file was last written or read at
    client,
    unfolded,   \* the sections the user opened, as the client keeps them
    acts,       \* how often the user, the poll or an update acted
    overtaken,  \* history: something older landed on what the client knows
    flight,     \* requests and answers under way
    readBacks   \* how often a review came back from its folder

store == <<held, files, mark>>
screen == <<client, unfolded, overtaken>>
vars == <<stored, members, store, screen, acts, flight, readBacks>>

Sources == {SourceOf[c] : c \in Cards}

ASSUME BoundsAssumption ==
    /\ FirstCards \subseteq Cards /\ MayGo \subseteq Cards /\ MayLeave \subseteq Sources
    /\ {RowsPerFetch, MaxActs, MaxFlight, MaxReviews, MaxReadBacks} \subseteq Nat
    /\ MaxRevision \in Nat \ {0}

Nowhere == [id |-> 0]

(* Everything but the order and the built list.                            *)
LightOf(r) ==
    [sources |-> r.sources, opened |-> r.opened, served |-> r.served,
     current |-> r.current, version |-> r.version]

Joined(heavy, light) ==
    [sources |-> light.sources, order |-> heavy, opened |-> light.opened,
     served |-> light.served, current |-> light.current, version |-> light.version,
     shown |-> <<>>]

(* An answer as it is sent, with the review it is of.                      *)
OfReview(u, id) ==
    [review |-> id, revision |-> u.revision, focus |-> u.focus, removed |-> u.removed,
     layout |-> u.layout, cards |-> u.cards]

(* The answer to an opening: the store writes the review before the answer *)
(* counts what it sends as served.                                         *)
OpeningOf(sections, requested) ==
    LET r == Laid(Opened(stored, members, sections, requested))
    IN  Answered(r, stored, NoWindow, TRUE, r.current, {}, {})

Written(id, r) == [id |-> id, heavy |-> r.order, light |-> LightOf(r)]

Init ==
    /\ stored = [c \in Cards |-> [live |-> c \in FirstCards, section |-> "ready",
                                  rev |-> IF c \in FirstCards THEN 1 ELSE 0]]
    /\ members = Sources
    /\ LET opening == OpeningOf({}, 0) IN
        /\ held = [id |-> 1, review |-> opening.review]
        /\ files = Written(1, [opening.review EXCEPT !.served = {}])
        /\ client = Reopened(OfReview(opening.answer, 1))
    /\ mark = 0
    /\ unfolded = {}
    /\ overtaken = FALSE
    /\ acts = 0
    /\ flight = {}
    /\ readBacks = 0

-----------------------------------------------------------------------------
(* Bound: the acts of a run.                                               *)
Acts ==
    /\ acts < MaxActs
    /\ acts' = acts + 1

(* The projection changed by work outside this review.                     *)

Wrote(c, live, section) ==
    [stored EXCEPT ![c] = [live |-> live, section |-> section, rev |-> Revision(stored) + 1]]

Outside == UNCHANGED <<store, screen, flight, readBacks>>

Elsewhere ==
    /\ Revision(stored) < MaxRevision
    /\ \E c \in MayGo, live \in BOOLEAN, s \in {"ready", "reviewed"} :
        /\ stored[c].live \/ live
        /\ stored[c].live => live \/ stored[c].section = s
        /\ stored' = Wrote(c, live, s)
    /\ UNCHANGED <<members, acts>>
    /\ Outside

SetChanges ==
    /\ Acts
    /\ \E s \in MayLeave : members' = IF s \in members THEN members \ {s} ELSE members \cup {s}
    /\ UNCHANGED stored
    /\ Outside

-----------------------------------------------------------------------------
(* The client sends.                                                       *)

Request(kind, more) ==
    Over(more, [kind |-> kind, review |-> client.review, since |-> client.revision,
                current |-> client.current])

Asked(q) == [q |-> q, a |-> <<>>]

Sends(kind, more) ==
    /\ kind \in Askable
    /\ Acts
    /\ Cardinality(flight) < MaxFlight
    /\ flight' = flight \cup {Asked(Request(kind, more))}
    /\ UNCHANGED <<stored, members, store, overtaken, readBacks>>

Still == UNCHANGED <<client, unfolded>>

Poll == Sends("changes", <<>>) /\ Still

LoadRows ==
    /\ \E i \in 1..client.total \ DOMAIN client.rows : Sends("rows", [start |-> i])
    /\ Still

GoTo ==
    /\ \E c \in Cards \ Loaded(client) : Sends("around", [id |-> c, keep |-> FALSE])
    /\ Still

MoveTo ==
    /\ Acts
    /\ \E c \in Loaded(client) \ {client.current} : client' = WithCurrent(client, c)
    /\ UNCHANGED <<stored, members, store, unfolded, overtaken, flight, readBacks>>

Toggle ==
    /\ \E i \in DOMAIN client.rows :
        LET row == client.rows[i] IN
        /\ ~IsCardRow(row)
        /\ Sends("section", [section |-> row.section, open |-> ~row.open])
        /\ unfolded' = IF row.open THEN unfolded \ {row.section} ELSE unfolded \cup {row.section}
    /\ UNCHANGED client

(* The screen moves on before the answer, to a loaded card it takes for    *)
(* the next one or none at all, or waits for the answer (0). Presses go    *)
(* one by one.                                                             *)
Press ==
    /\ client.current \in DOMAIN client.cards
    /\ \A m \in flight : m.q.kind # "press"
    /\ \E landed \in {0, client.current} \cup Loaded(client) :
        /\ Sends("press", [id |-> client.current, landed |-> landed])
        /\ client' = IF landed = 0 THEN client ELSE WithCurrent(client, landed)
    /\ UNCHANGED unfolded

ReplacePhrase ==
    /\ client.current \in DOMAIN client.cards
    /\ \E new \in Cards :
        /\ WordOf[new] = WordOf[client.current] /\ SourceOf[new] = SourceOf[client.current]
        /\ ~Made(stored, new)
        /\ Sends("replace", [id |-> client.current, new |-> new])
    /\ Still

-----------------------------------------------------------------------------
(* The server answers.                                                     *)

(* The review of the request, from memory or read back from its folder.    *)
Holds(q) == q.review \in {held.id, files.id}
Found(q) == IF held.id = q.review THEN held.review ELSE Joined(files.heavy, files.light)

Refused == [refused |-> TRUE]
Expired == [expired |-> TRUE]
IsAnswer(a) == "revision" \in DOMAIN a

(* What the request leaves stored, and whether its own write is refused.   *)
After(q) ==
    CASE q.kind = "press" -> Wrote(q.id, TRUE, "reviewed")
      [] q.kind = "replace" ->
            [c \in Cards |-> IF c = q.id THEN [stored[c] EXCEPT !.live = FALSE,
                                                               !.rev = Revision(stored) + 1]
                             ELSE IF c = q.new THEN [live |-> TRUE, section |-> stored[q.id].section,
                                                     rev |-> Revision(stored) + 1]
                             ELSE stored[c]]
      [] OTHER -> stored

MayWrite(q) ==
    CASE q.kind = "press" -> stored[q.id].live
      [] q.kind = "replace" -> stored[q.id].live /\ ~Made(stored, q.new)
      [] q.kind = "around" -> q.id \in Ids(Found(q).order)
      [] OTHER -> TRUE

Outcome(q) ==
    LET r == Found(q) IN
    CASE q.kind = "changes" -> Changes(r, stored, members, q)
      [] q.kind = "rows" -> ReadRows(r, stored, q, q.start, RowsPerFetch)
      [] q.kind = "around" -> ReadAround(r, stored, q.id)
      [] q.kind = "section" -> SetSection(r, stored, q, q.section, q.open)
      [] q.kind = "press" -> Pressed(r, stored, After(q), members, q, q.id)
      [] q.kind = "replace" -> Replaced(r, After(q), members, q, q.id, q.new)

Answering(m, a) == flight' = (flight \ {m}) \cup {[m EXCEPT !.a = <<a>>]}

(* The version the store knows its heavy file at; a review read back takes *)
(* the version of its light file.                                          *)
MarkOf(q) == IF held.id = q.review THEN mark ELSE files.light.version
HeavyAfter(q, r) == IF MarkOf(q) = r.version THEN files.heavy ELSE r.order

Writes(q) == q.kind \in {"press", "replace"}
Serves(m) ==
    /\ m.a = <<>> /\ m.q.kind # "open" /\ Holds(m.q) /\ MayWrite(m.q)
    /\ Writes(m.q) => Revision(stored) < MaxRevision
    /\ held.id = m.q.review \/ readBacks < MaxReadBacks

(* The request ran, the review was written to its folder, then answered.   *)
Serve ==
    \E m \in flight :
        /\ Serves(m)
        /\ \E out \in {Outcome(m.q)} :
            /\ stored' = After(m.q)
            /\ held' = [id |-> m.q.review, review |-> out.review]
            /\ files' = [id |-> m.q.review, heavy |-> HeavyAfter(m.q, out.review),
                         light |-> LightOf(out.review)]
            /\ mark' = out.review.version
            /\ readBacks' = IF held.id = m.q.review THEN readBacks ELSE readBacks + 1
            /\ Answering(m, OfReview(out.answer, m.q.review))
        /\ UNCHANGED <<members, screen, acts>>

(* A card that is gone or not held, the app dead; a review not held.       *)
Refuse ==
    \E m \in flight :
        /\ m.a = <<>> /\ m.q.kind # "open"
        /\ \/ Holds(m.q) /\ ~MayWrite(m.q) /\ Answering(m, Refused)
           \/ ~Holds(m.q) /\ Answering(m, Expired)
        /\ UNCHANGED <<stored, members, store, screen, acts, readBacks>>

Open ==
    \E m \in flight :
        /\ m.a = <<>> /\ m.q.kind = "open"
        /\ LET opening == OpeningOf(m.q.sections, m.q.current)
               id == m.q.review + 1
           IN  /\ held' = [id |-> id, review |-> opening.review]
               /\ files' = Written(id, [opening.review EXCEPT !.served = {}])
               /\ mark' = 0
               /\ Answering(m, OfReview(opening.answer, id))
        /\ UNCHANGED <<stored, members, screen, acts, readBacks>>

-----------------------------------------------------------------------------
(* Memory lets the review go for newer ones; the app dies.                 *)

LetGo ==
    /\ held # Nowhere /\ readBacks < MaxReadBacks
    /\ held' = Nowhere
    /\ UNCHANGED <<stored, members, files, mark, screen, acts, flight, readBacks>>

(* Between the heavy file and the light one: the change is stored, the     *)
(* answer lost.                                                            *)
DieWriting ==
    /\ \E m \in flight :
        /\ Serves(m) /\ held.id = m.q.review /\ readBacks < MaxReadBacks
        /\ files' = [files EXCEPT !.heavy = HeavyAfter(m.q, Outcome(m.q).review)]
        /\ stored' = After(m.q)
        /\ Answering(m, Refused)
    /\ held' = Nowhere
    /\ UNCHANGED <<members, mark, screen, acts, readBacks>>

(* Started again with other code: no folder is read back.                  *)
NewCode ==
    /\ client.review < MaxReviews
    /\ Acts
    /\ held' = Nowhere /\ files' = Nowhere
    /\ UNCHANGED <<stored, members, mark, screen, flight, readBacks>>

-----------------------------------------------------------------------------
(* The client receives.                                                    *)

Landed(m, state, more) ==
    /\ client' = state
    /\ flight' = (flight \ {m}) \cup more
    /\ UNCHANGED <<stored, members, store, unfolded, acts, readBacks>>

Recentering(u, after) ==
    IF NeedsRecenter(client, u, after)
    THEN {Asked([kind |-> "around", review |-> after.review, since |-> after.revision,
                 current |-> after.current, id |-> after.current, keep |-> TRUE])}
    ELSE {}

Answers == {m \in flight : m.a # <<>>}

(* The answer to a read or to a poll.                                      *)
ReceiveRead ==
    \E m \in Answers :
        /\ m.q.kind \in {"changes", "rows", "around", "section"} /\ IsAnswer(m.a[1])
        /\ LET u == m.a[1]
               after == Applied(client, u, m.q.kind # "changes", m.q.kind = "around" /\ m.q.keep)
           IN  /\ Landed(m, after, Recentering(u, after))
               /\ overtaken' = (overtaken \/ Overtaken(client, u))

(* The answer to a change. The screen follows its focus unless the user    *)
(* has left the place a press moved it to; an answer a poll overtook       *)
(* changes nothing but the focus.                                          *)
ReceiveChange ==
    \E m \in Answers :
        /\ Writes(m.q) /\ IsAnswer(m.a[1])
        /\ LET u == m.a[1]
               ahead == m.q.kind = "press" /\ m.q.landed # 0
               stale == Stale(client, u)
               after == Applied(client, u, FALSE, ahead)
               follows == /\ u.focus # 0
                          /\ ~(ahead /\ client.current # m.q.landed)
                          /\ ahead \/ stale
                          /\ ~stale \/ u.focus \in Loaded(after)
           IN  /\ Landed(m, IF follows THEN WithCurrent(after, u.focus) ELSE after,
                         Recentering(u, after))
               /\ overtaken' = (overtaken \/ Overtaken(client, u))

ReceiveOpened ==
    \E m \in Answers :
        m.q.kind = "open" /\ Landed(m, Reopened(m.a[1]), {}) /\ overtaken' = FALSE

Undone(q) ==
    IF q.kind = "press" /\ client.current = q.landed THEN WithCurrent(client, q.id) ELSE client

(* Refused, or answered and lost on the way: a press takes its move back.  *)
(* A request lost before it was served is one never sent.                  *)
Fail ==
    \E m \in Answers : Landed(m, Undone(m.q), {}) /\ UNCHANGED overtaken

(* A review not held any more is opened again on the current card, once.   *)
ReceiveExpired ==
    \E m \in Answers :
        /\ m.a[1] = Expired
        /\ Landed(m, client,
                  IF m.q.review = client.review /\ \A n \in flight : n.q.kind # "open"
                  THEN {Asked([kind |-> "open", review |-> client.review, since |-> 0,
                               current |-> client.current, sections |-> unfolded])}
                  ELSE {})
        /\ UNCHANGED overtaken

Next ==
    \/ Elsewhere \/ SetChanges
    \/ Poll \/ LoadRows \/ GoTo \/ MoveTo \/ Toggle \/ Press \/ ReplacePhrase
    \/ Serve \/ Refuse \/ Open
    \/ LetGo \/ DieWriting \/ NewCode
    \/ ReceiveRead \/ ReceiveChange \/ ReceiveOpened \/ Fail \/ ReceiveExpired

Spec == Init /\ [][Next]_vars

-----------------------------------------------------------------------------
CardRecords == [live : BOOLEAN, section : Sections, rev : 0..MaxRevision]

(* Types: every held card is a card of the set, a client shows cards and   *)
(* rows, no more is under way than the bounds let (ReviewState, OpenReview,*)
(* FileReviewOrderStore).                                                  *)
TypeOK ==
    /\ stored \in [Cards -> CardRecords]
    /\ members \subseteq Sources
    /\ held # Nowhere => /\ Ids(held.review.order) \cup held.review.served \subseteq Cards
                         /\ Cardinality(Ids(held.review.order)) = Len(held.review.order)
                         /\ held.review.version \in Nat
    /\ files # Nowhere => /\ Ids(files.heavy) \subseteq Cards
    /\ DOMAIN client.rows \subseteq 1..(Cardinality(Cards) + Len(SectionOrder))
    /\ DOMAIN client.cards \subseteq Cards
    /\ client.current \in Cards \cup {0}
    /\ unfolded \subseteq FoldedByDefault
    /\ acts \in 0..MaxActs
    /\ mark \in Nat /\ Cardinality(flight) <= MaxFlight + 1
    /\ readBacks \in 0..MaxReadBacks

(* The held order stands in the order of its keys, whatever joined, moved, *)
(* was replaced, went or came back with its folder: the binary search of   *)
(* place_by_key has what it needs (ReviewOrder.key_at).                    *)
Ordered(order) ==
    \A i, j \in DOMAIN order : i < j => ~Below(order[j].key, order[i].key)

OrderInKeyOrder ==
    /\ held # Nowhere => Ordered(held.review.order)
    /\ files # Nowhere => Ordered(files.heavy)

(* The review held is one, of cards there are, in order.                   *)
OrderIsSound == TypeOK /\ OrderInKeyOrder

(* What a client was told of is placed: up to the client's revision, the   *)
(* review holds the live cards of its sources and no others, each in its   *)
(* section; for a source that stays in the set also after a restart at any *)
(* moment (ReviewUpdates.build, FileReviewOrderStore).                     *)
OrderIsTheSet ==
    held # Nowhere /\ held.id = client.review =>
        LET order == held.review.order IN
        \A c \in Cards :
            /\ stored[c].rev <= client.revision
            /\ readBacks = 0 \/ SourceOf[c] \notin MayLeave
            => /\ (c \in Ids(order)) <=> (stored[c].live /\ SourceOf[c] \in held.review.sources)
               /\ c \in Ids(order) => CardOf(order, c).section = stored[c].section

(* While memory keeps the review, a client on its list's version has that  *)
(* list's rows: rows of two lists never mix, in whatever order answers     *)
(* come and whichever are lost (OpenReview.layout, applyUpdate).           *)
SameReview == held # Nowhere /\ held.id = client.review /\ client.version = held.review.version

RowsMatch ==
    SameReview => LET rows == RowsOf(held.review) IN
                  /\ client.total = Len(rows)
                  /\ \A i \in DOMAIN client.rows : client.rows[i] = rows[i]

RowsAgree == readBacks = 0 => RowsMatch

(* A card with a row of that list is as it was stored at the revision the  *)
(* client knows all changes up to, or newer (ReviewAnswer.of, applyUpdate).*)
CardsKnown ==
    readBacks = 0 /\ ~overtaken /\ SameReview =>
        \A c \in Loaded(client) : stored[c].rev <= client.revision =>
            /\ stored[c].live
            /\ c \in DOMAIN client.cards /\ client.cards[c] = stored[c].rev

(* Where the focus of a change or a poll goes is a live card: it skips the *)
(* cards gone since the list was shown (focus_after_press,                 *)
(* focus_after_removal).                                                   *)
FocusIsLive ==
    \A m \in Answers :
        m.q.kind # "around" /\ IsAnswer(m.a[1]) =>
            LET f == m.a[1].focus IN
            /\ f # 0 /\ stored[f].rev <= m.a[1].revision
            /\ readBacks = 0 \/ SourceOf[f] \notin MayLeave
            => stored[f].live

=============================================================================
