--------------------------- MODULE ExpenseHistory ---------------------------
(***************************************************************************)
(* ExpenseLifecycle with a memory of what happened to each delivery.  The  *)
(* code takes no lock on a draft, so one draft may be posted twice, or     *)
(* posted although its cancellation was announced: the causes that can     *)
(* have are stated here, and no others.  No action reads these variables.  *)
(***************************************************************************)
EXTENDS ExpenseProperties

VARIABLES
    met,        \* pairs of deliveries for one draft that ran at the same time
    unanswered, \* deliveries that gave up waiting for the answer to a request
    kept        \* deliveries that left in place the row they were to delete

hvars == <<vars, met, unanswered, kept>>

Overlapping == {p \in Tasks \X Tasks : /\ p[1] # p[2] /\ D(p[1]) = D(p[2])
                                       /\ pc[p[1]] \in Running /\ pc[p[2]] \in Running}

\* The database call by which t was to delete its row raises, and the row stays.
KeepsRow(t) == /\ May("supabase") /\ D(t) \in pending'
               /\ MarkCompletedRaises(t) \/ CancelDelete(t)

Remember ==
    /\ met' = met \cup Overlapping'
    /\ unanswered' = unanswered \cup {t \in Tasks : TimesOut(t) \/ AbortsAfterSend(t)}
    /\ kept' = kept \cup {t \in Tasks : KeepsRow(t)}

InitHistory == Init /\ met = {} /\ unanswered = {} /\ kept = {}
NextHistory == Next /\ Remember

HistorySpec == InitHistory /\ [][NextHistory]_hvars

-----------------------------------------------------------------------------
\* t may have left its draft posted and its row in place: it was killed, it never
\* saw the answer to its request, or the delete of mark_completed failed.
CutShort(t) == pc[t] = "dead" \/ t \in unanswered \/ t \in kept

\* A draft is on Splitwise twice only for a reason: its two Confirms ran at the same
\* time, or one of them was cut short.  Two Confirms one after the other, on one copy
\* of the message or on two, redelivered or not, never add up.
DuplicatesHaveCause ==
    \A r, u \in posted \cup inflight :
        r # u /\ D(r.task) = D(u.task) =>
            \/ <<r.task, u.task>> \in met
            \/ CutShort(r.task) \/ CutShort(u.task)

\* A draft whose cancellation was announced is on Splitwise only for a reason: a
\* Confirm ran beside the Cancel or was cut short before it, or the delete of the
\* Cancel failed and the row it left was confirmed.
CancelledPostsHaveCause ==
    \A x \in Taps : "cancelled" \in said[x] =>
        \A r \in PostsOf(x.draft) :
            \/ CutShort(r.task)
            \/ \E t \in Tasks : t.tap = x /\ (<<t, r.task>> \in met \/ t \in kept)

\* "Added to Splitwise" means that the row is gone, so that no later tap can post the
\* draft again, whatever timeouts, crashes, redeliveries and the sweep did: the row
\* of an announced expense stays only where mark_completed failed.
AddedIsSettled ==
    \A x \in Taps : "added" \in said[x] =>
        x.draft \notin pending \/ \E t \in kept : t.tap = x

-----------------------------------------------------------------------------
(* What makes them inductive                                               *)

\* Steps of a Confirm from its request to the delete of the row; the words after
\* which the row must be gone.
Holding  == {"await", "mark", "insert", "unlink"}
Settling == {"added", "cancelled"}

Sends(t)      == \E r \in posted \cup inflight : r.task = t
Sibling(t, u) == t # u /\ D(t) = D(u)

\* Deliveries of one draft that are running have met, each the other.
MeetingsNoted ==
    /\ \A t, u \in Tasks : Sibling(t, u) /\ pc[t] \in Running /\ pc[u] \in Running
                            => <<t, u>> \in met
    /\ \A t, u \in Tasks : <<t, u>> \in met => <<u, t>> \in met

\* A delivery that got every answer sent one request at most, and none before it was
\* at it.
SoleRequest(t) ==
    \/ t \in unanswered
    \/ /\ pc[t] \in Unsent => ~Sends(t)
       /\ \A r, u \in posted \cup inflight : r.task = t /\ u.task = t => r = u
       /\ \A r \in posted \cap inflight : r.task # t

\* A delivery that sent a request is on its way to the delete of the row, or the row
\* is gone, or it was cut short.
RowFollows(t) == Sends(t) => pc[t] \in Holding \/ D(t) \notin pending \/ CutShort(t)

\* "Added" and "Cancelled." are about to be said with the row gone or knowingly kept,
\* and beside every request they did not see stands its cause.
FinalWords(t) ==
    /\ text[t] \in Settling => /\ pc[t] \in {"edit", "send", "finish"}
                               /\ D(t) \notin pending \/ t \in kept
    /\ text[t] = "cancelled" => \A r \in PostsOf(D(t)) :
          CutShort(r.task) \/ <<t, r.task>> \in met \/ t \in kept

\* Whoever was let past the row found no request of another delivery, and no word of
\* a cancellation, without its cause.
StartsClean(v) == pc[v] \in Posting \cup {"delete"} =>
    /\ \A t \in Tasks : Sibling(t, v) /\ Sends(t) => <<t, v>> \in met \/ CutShort(t)
    /\ \A x \in Taps : x.draft = D(v) /\ "cancelled" \in said[x] =>
          \E t \in Tasks : t.tap = x /\ (<<t, v>> \in met \/ t \in kept)

\* Words of an end were said with the row gone, or knowingly kept.
SaidForGood(x) == said[x] \cap Settling # {} =>
    /\ stage[x.draft] # "none"
    /\ x.draft \notin pending \/ \E t \in Tasks : t.tap = x /\ t \in kept

CausesKnown ==
    /\ MeetingsNoted
    /\ \A t \in Tasks : SoleRequest(t) /\ RowFollows(t) /\ FinalWords(t) /\ StartsClean(t)
    /\ \A x \in Taps : SaidForGood(x)
    /\ DuplicatesHaveCause /\ CancelledPostsHaveCause
=============================================================================
