------------------------- MODULE ContextCompression -------------------------
(***************************************************************************)
(* The message list of one conversation thread and its compression         *)
(* (app/core/context_compression.py).  After a turn that asks nothing,     *)
(* while the thread's lock is still held, the messages before the most     *)
(* recent turns are summarised by a model and the list is replaced: an     *)
(* update removes every message and adds the summary and the recent        *)
(* messages again.  The update goes through add_messages, the reducer of   *)
(* the messages channel (app/core/state.py).                               *)
(*                                                                         *)
(* A message is the index of its entry in the log of all messages the      *)
(* thread ever had; of its text nothing is kept but what a summary was     *)
(* made from.  Left open are whether the token estimate reaches the        *)
(* trigger, whether the model answers anything, and how much of an older   *)
(* summary fits into the next prompt.                                      *)
(***************************************************************************)
EXTENDS Naturals, FiniteSets, Sequences, SequencesExt

CONSTANTS
  KeepRecentTurns,  \* human messages kept as they are, with what follows
  MaxMessages       \* entries the log can take (bounds the model)

ASSUME CompressionAssumption == KeepRecentTurns \in Nat \ {0} /\ MaxMessages \in Nat

VARIABLES
  log,       \* history: every message ever added, in the order of creation
  messages,  \* the messages channel of the checkpoint
  pending,   \* whether the last turn ended in an interrupt
  forgotten  \* history: the messages that compressions lost

vars == <<log, messages, pending, forgotten>>

Kinds == {"system", "human", "ai", "summary"}

\* Every variable has its type, and the list holds no message twice.
TypeOK ==
  /\ log \in Seq([kind : Kinds, covers : SUBSET (1 .. MaxMessages)])
  /\ Len(log) <= MaxMessages
  /\ messages \in Seq(DOMAIN log) /\ IsInjective(messages)
  /\ pending \in BOOLEAN
  /\ forgotten \subseteq DOMAIN log

Kind(m) == log[m].kind

Spoken(S) == {m \in S : Kind(m) # "summary"}

\* What the summaries in S were made from; other messages cover nothing.
Behind(S) == UNION {log[s].covers : s \in S}

\* The elements of s that are in T, in their order.
Only(s, T) ==
  LET picked[n \in 0 .. Len(s)] ==
        IF n = 0 THEN <<>>
        ELSE IF s[n] \in T THEN Append(picked[n - 1], s[n]) ELSE picked[n - 1]
  IN picked[Len(s)]

-----------------------------------------------------------------------------
(* The plan                                                                *)

\* The positions of the inputs of the teacher.
HumanIndexes ==
  Only([i \in DOMAIN messages |-> i], {i \in DOMAIN messages : Kind(messages[i]) = "human"})

\* Mutant: the turn in progress is counted as one of the recent ones.
CutoffOneTurnLate ==
  LET humans == Len(HumanIndexes)
  IN IF humans <= KeepRecentTurns THEN 0 ELSE HumanIndexes[humans - KeepRecentTurns + 2] - 1

\* _recent_turn_cutoff: how many messages precede the recent turns.
RecentTurnCutoff ==
  LET humans == Len(HumanIndexes)
  IN IF humans <= KeepRecentTurns THEN 0 ELSE HumanIndexes[humans - KeepRecentTurns + 1] - 1

Compressible(cutoff) == SubSeq(messages, 1, cutoff)
Retained(cutoff)     == SubSeq(messages, cutoff + 1, Len(messages))

-----------------------------------------------------------------------------
(* The replacement                                                         *)

\* Mutant: a summary is made from the messages said only.
CoversDirectly(condensed, read) == Spoken(condensed)

\* What a summary of the condensed messages is made from.  _format_conversation
\* cuts every message, and an older summary has a preface before its history,
\* which is in the prompt only if the summary is among the read ones.
Covers(condensed, read) == Spoken(condensed) \cup Behind(read)

Entry(m, remove) == [id |-> m, remove |-> remove]

\* build_replacement_update
Replacement(summary, retained) ==
  [i \in DOMAIN messages |-> Entry(messages[i], TRUE)]
    \o <<Entry(summary, FALSE)>>
    \o [i \in DOMAIN retained |-> Entry(retained[i], FALSE)]

\* The reducer: an id that is removed and then added stays; an id the list
\* has keeps its place, and only new ones are appended.
AddMessages(list, update) ==
  LET added == {e \in ToSet(update) : ~e.remove}
      gone  == {e.id : e \in ToSet(update)} \ {e.id : e \in added}
      new   == Only(update, {e \in added : e.id \notin ToSet(list)})
  IN Only(list, ToSet(list) \ gone) \o [i \in DOMAIN new |-> new[i].id]

-----------------------------------------------------------------------------
(* Actions                                                                 *)

\* A turn appends its input (nothing for an approval, else a message, with
\* the text of its attachments before it or without) and what the nodes say.
Turn(input, answers) ==
  /\ Len(log) + input + answers <= MaxMessages
  /\ log' = log \o [i \in 1 .. input + answers |->
                      [kind |-> IF i < input THEN "system" ELSE IF i = input THEN "human" ELSE "ai",
                       covers |-> {}]]
  /\ messages' = messages \o [i \in 1 .. input + answers |-> Len(log) + i]
  /\ pending' \in BOOLEAN
  /\ UNCHANGED forgotten

\* _maybe_compress_thread_context when the trigger is reached and the call of
\* the model returns; when it raises, or the update fails, nothing changes.
Replace(covers, lost) ==
  LET cutoff  == RecentTurnCutoff
      summary == Len(log) + 1
  IN /\ ~pending
     /\ cutoff > 0
     /\ summary <= MaxMessages
     /\ log' = Append(log, [kind |-> "summary", covers |-> covers])
     /\ messages' = AddMessages(messages, Replacement(summary, Retained(cutoff)))
     /\ forgotten' = forgotten \cup lost
     /\ UNCHANGED pending

Condensed == ToSet(Compressible(RecentTurnCutoff))

\* The model answers with a summary of what the prompt holds.
Compress ==
  \E read \in SUBSET (Condensed \ Spoken(Condensed)) :
    Replace(Covers(Condensed, read), Behind(Condensed \ read))

\* The answer has no text: "No older conversation summary was produced."
CompressEmpty == Replace({}, Covers(Condensed, Condensed))

Init == log = <<>> /\ messages = <<>> /\ pending = FALSE /\ forgotten = {}

Next == Compress \/ CompressEmpty \/ \E input \in 0 .. 2, answers \in 0 .. 1 : Turn(input, answers)

Spec == Init /\ [][Next]_vars

-----------------------------------------------------------------------------
(* Properties                                                              *)

Covered == Behind(ToSet(messages))

(***************************************************************************)
(* However often the list is compressed, a message that was said is in it  *)
(* or is one of those a summary in it was made from, unless a compression  *)
(* lost it in one of two ways: the model answered nothing, or the message  *)
(* stood behind an older summary whose history did not fit into the        *)
(* prompt.  What is lost in these ways is lost for good.                   *)
(***************************************************************************)
NothingElseForgotten ==
  \A m \in Spoken(DOMAIN log) :
    m \notin forgotten <=> m \in ToSet(messages) \cup Covered

(***************************************************************************)
(* The recent turns reach the models verbatim, and a summary is read for   *)
(* some turns at least: what was said, or summed up, since the             *)
(* KeepRecentTurns-th last input is in the list.                           *)
(***************************************************************************)
RecentStays ==
  \A m \in DOMAIN log :
    Cardinality({h \in m + 1 .. Len(log) : Kind(h) = "human"}) < KeepRecentTurns
    => m \in ToSet(messages)

(***************************************************************************)
(* The list with its summaries keeps the promise of ThreadMemory: only the *)
(* older part is ever condensed, nothing is both in the list and behind a  *)
(* summary, and what a summary was not made from does not come back.       *)
(***************************************************************************)
Memory == INSTANCE ThreadMemory WITH
            inputs   <- {m \in DOMAIN log : Kind(m) = "human"},
            verbatim <- Spoken(ToSet(messages)),
            gist     <- Covered

KeepsMemory == Memory!Spec

(***************************************************************************)
(* The replacement is built to delete all messages and to put the summary  *)
(* first: the model reads it before the messages it leads up to.           *)
(***************************************************************************)
SummaryFirst ==
  \A i, j \in DOMAIN messages :
    (i < j /\ Kind(messages[j]) = "summary") => Kind(messages[i]) = "summary"

=============================================================================
