----------------------------- MODULE SearchPages -----------------------------
(***************************************************************************)
(* Searching the archive from a conversation that has only so much room:   *)
(* whatsapp_search_archive and whatsapp_search_page (agent/tools) over the *)
(* result sets of agent/lib/result-set.ts, with a head sized by how full   *)
(* the session is (context-budget.ts, tool-output.ts).  A search shows a   *)
(* head and keeps the rest behind a handle; sets are few, are shared by    *)
(* all sessions and expire; messages arrive while a reader pages.          *)
(*                                                                         *)
(* A row is the arrival number of a message the words match, newest first. *)
(* Sizes are in rows of the archive and shares of the window.  A set that  *)
(* has expired is gone: every look at the sets drops the expired first.    *)
(***************************************************************************)
EXTENDS Naturals, Sequences, SequencesExt, FiniteSetsExt, Functions

CONSTANTS Sessions,
          MAX_OPEN_SETS,
          Window,       \* the context window, in rows
          ByteBudget,   \* CONTEXT_BYTE_BUDGET, in rows
          Readings,     \* what a step may report the prompt to measure
          SearchLimits, \* the limit of a search
          PageLimits,   \* the limit of a page
          MaxMatches,   \* bound: messages that match
          MaxOpened     \* bound: sets ever opened

ASSUME SearchAssumption ==
    /\ MAX_OPEN_SETS \in Nat \ {0} /\ Window \in Nat /\ ByteBudget \in Nat
    /\ Readings \subseteq Nat
    /\ SearchLimits \subseteq Nat \ {0} /\ PageLimits \subseteq Nat \ {0}

VARIABLES matching, \* how many archived messages match
          others,   \* whether the archive holds any that do not
          sets,     \* the open result sets, oldest first
          opened,   \* counter
          ledger,   \* ledger[s]: the highest reading of the session
          reader    \* reader[s]: what the session has asked and been told

searchVars == <<matching, others, sets, opened, ledger, reader>>

-----------------------------------------------------------------------------
(* How much may be shown.                                                  *)

remainingTokens(used) == IF used > Window THEN 0 ELSE Window - used

budgetBytes(used) == Min({Window \div 4, remainingTokens(used) \div 2})

budgetFor(s) == Min({ByteBudget, budgetBytes(ledger[s])})

headSize(s) == Max({1, budgetFor(s) \div 2})

-----------------------------------------------------------------------------
(* The result sets.                                                        *)

Answer(limit) == [i \in 1 .. Min({limit, matching}) |-> matching - i + 1]

Opened(rows, head) ==
    SubSeq(sets, Max({1, Len(sets) - MAX_OPEN_SETS + 2}), Len(sets)) \o
        <<[id |-> opened + 1, rows |-> rows, head |-> head]>>

SetsOf(id) == {set \in ToSet(sets) : set.id = id}

\* A mutant: page two re-runs the query instead of reading the snapshot.
PageOfArchive(set, after, limit) ==
    SubSeq(Answer(Len(set.rows)), Max({set.head, after}) + 1,
           Min({Max({set.head, after}) + limit, Len(set.rows)}))

\* No after is 0: both start where the head stopped.
PageOf(set, after, limit) ==
    SubSeq(set.rows, Max({set.head, after}) + 1,
           Min({Max({set.head, after}) + limit, Len(set.rows)}))

-----------------------------------------------------------------------------

Silent == [pc |-> "silent"]
NotYet == {}

SearchInit ==
    /\ matching = 0 /\ others = 0
    /\ sets = <<>> /\ opened = 0
    /\ ledger = [s \in Sessions |-> 0]
    /\ reader = [s \in Sessions |-> Silent]

MessageMatches ==
    /\ matching < MaxMatches
    /\ matching' = matching + 1
    /\ UNCHANGED <<others, sets, opened, ledger, reader>>

MessageDiffers ==
    /\ others' = 1
    /\ UNCHANGED <<matching, sets, opened, ledger, reader>>

\* Keeps the highest: the prompt a compaction shrank still counts as it was.
observeUsage(s, used) == [ledger EXCEPT ![s] = Max({@, used})]

\* step.completed: the alert of a band goes out with the first reading that
\* reaches it, which is when the ledger does.
StepCompletes(s) ==
    /\ \E used \in Readings : ledger' = observeUsage(s, used)
    /\ UNCHANGED <<matching, others, sets, opened, reader>>

\* The hits and the coverage are asked for together and answered apart.
Searches(s) ==
    /\ opened < MaxOpened /\ reader[s].pc # "asked"
    /\ \E limit \in SearchLimits :
          reader' = [reader EXCEPT ![s] =
              [pc |-> "asked", limit |-> limit, anyMatched |-> matching > 0,
               hits |-> NotYet, coverage |-> NotYet]]
    /\ UNCHANGED <<matching, others, sets, opened, ledger>>

HitsAnswered(s) ==
    /\ reader[s].pc = "asked" /\ reader[s].hits = NotYet
    /\ reader' = [reader EXCEPT ![s].hits = {Answer(reader[s].limit)}]
    /\ UNCHANGED <<matching, others, sets, opened, ledger>>

CoverageAnswered(s) ==
    /\ reader[s].pc = "asked" /\ reader[s].coverage = NotYet
    /\ reader' = [reader EXCEPT ![s].coverage = {matching + others}]
    /\ UNCHANGED <<matching, others, sets, opened, ledger>>

SearchFails(s) ==
    /\ reader[s].pc = "asked"
    /\ reader' = [reader EXCEPT ![s] = Silent]
    /\ UNCHANGED <<matching, others, sets, opened, ledger>>

\* What the session is told: the rows it has then read, each at its position,
\* and where to go on.
Tells(s, verdict, rows, next, found, id, skipped) ==
    reader' = [reader EXCEPT ![s] = [pc |-> "told", verdict |-> verdict, read |-> rows,
                                     next |-> next, found |-> found, id |-> id,
                                     skipped |-> skipped, anyMatched |-> reader[s].anyMatched]]

ShowsHead(s) ==
    /\ reader[s].pc = "asked" /\ reader[s].coverage # NotYet
    /\ \E rows \in reader[s].hits :
          LET shown == SubSeq(rows, 1, Min({headSize(s), Len(rows)}))
              empty == rows = <<>> \/ 0 \in reader[s].coverage
          IN IF shown = rows
             THEN /\ Tells(s, IF empty THEN "none" ELSE "all", shown, Len(shown), rows, 0, FALSE)
                  /\ UNCHANGED <<sets, opened>>
             ELSE /\ Tells(s, IF empty THEN "none" ELSE "part", shown, Len(shown), rows,
                           opened + 1, FALSE)
                  /\ sets' = Opened(rows, Len(shown))
                  /\ opened' = opened + 1
    /\ UNCHANGED <<matching, others, ledger>>

\* `after` is any number: less than the head is the head, and any past the
\* end is as the first past it.  A session that resumes where it has not read
\* has skipped what is before.
Pages(s) ==
    /\ reader[s].pc = "told" /\ reader[s].verdict \in {"part", "all"}
    /\ \E set \in SetsOf(reader[s].id), limit \in PageLimits :
       \E after \in 0 .. Len(set.rows) + 1 :
          LET read == reader[s].read
              from == Max({set.head, after})
              page == PageOf(set, after, limit)
              next == from + Len(page)
          IN Tells(s, IF next < Len(set.rows) THEN "part" ELSE "all",
                   [i \in DOMAIN read \cup (from + 1 .. next) |->
                       IF i \in from + 1 .. next THEN page[i - from] ELSE read[i]],
                   next, reader[s].found, set.id,
                   reader[s].skipped \/ from \notin DOMAIN read)
    /\ UNCHANGED <<matching, others, sets, opened, ledger>>

PageRefused(s) ==
    /\ reader[s].pc = "told" /\ reader[s].verdict \in {"part", "all"} /\ reader[s].id # 0
    /\ SetsOf(reader[s].id) = {}
    /\ reader' = [reader EXCEPT ![s].verdict = "refused"]
    /\ UNCHANGED <<matching, others, sets, opened, ledger>>

\* Thirty minutes: sets expire in the order they were opened.
SetExpires ==
    /\ sets # <<>>
    /\ sets' = Tail(sets)
    /\ UNCHANGED <<matching, others, opened, ledger, reader>>

\* Ids carry the time as well as the counter, so none comes back.
AgentRestarts ==
    /\ sets' = <<>>
    /\ ledger' = [s \in Sessions |-> 0]
    /\ reader' = [s \in Sessions |-> IF reader[s].pc = "asked" THEN Silent ELSE reader[s]]
    /\ UNCHANGED <<matching, others, opened>>

SearchNext ==
    \/ MessageMatches \/ MessageDiffers \/ SetExpires \/ AgentRestarts
    \/ \E s \in Sessions :
          \/ StepCompletes(s)
          \/ Searches(s) \/ HitsAnswered(s) \/ CoverageAnswered(s) \/ SearchFails(s)
          \/ ShowsHead(s)
          \/ Pages(s) \/ PageRefused(s)

SearchSpec == SearchInit /\ [][SearchNext]_searchVars

-----------------------------------------------------------------------------

\* What a session has been told of its search is true of the rows the search
\* found, whatever arrived, was evicted or expired since.  Every row it was
\* shown is the one at that position; "none" only when nothing matched as it
\* asked.  A session that only resumes where it has read is told "all" when it
\* has read exactly those rows, and is otherwise told a place to go on from
\* that leaves nothing out before it and something after it (result-set.ts: a
\* page is never mistaken for the whole).
PagesAreTheAnswer ==
    \A s \in Sessions : reader[s].pc = "told" =>
        LET r == reader[s] IN
        /\ IsRestriction(r.read, r.found)
        /\ r.verdict = "none" => ~r.anyMatched
        /\ r.verdict = "all" /\ ~r.skipped => r.read = r.found
        /\ r.verdict = "part" /\ ~r.skipped =>
              r.next \in 1 .. Len(r.found) - 1 /\ 1 .. r.next \subseteq DOMAIN r.read
=============================================================================
