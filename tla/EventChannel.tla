---------------------------- MODULE EventChannel ----------------------------
(***************************************************************************)
(* What the Rust SDK's batching engine promises, with none of its          *)
(* machinery: a first-in first-out channel.  An event that is admitted     *)
(* stays pending until the channel settles it, together with every older   *)
(* one, and gives it exactly one fate.  Whether the fate is a good one is  *)
(* not the channel's promise: the engine may lose a batch, but never       *)
(* twice, never out of order, and never without having settled it.         *)
(***************************************************************************)
EXTENDS Naturals, Sequences, SequencesExt

CONSTANT MaxEvents     \* bound: events a behaviour may submit

Events == 1..MaxEvents \* events are named by the order of their submission

Fates == {"stored",      \* the collector answered: inserted
          "refused",     \* the collector answered: rejected
          "expired",     \* given up after the last retry
          "unencodable", \* the batch could not be serialised
          "lost"}        \* the worker was gone

VARIABLES next,     \* the next event to be submitted
          pending,  \* events admitted and not settled, oldest first
          settled,  \* events settled, in the order they were
          fate,     \* fate[e]: how e was settled, or "none"
          open      \* FALSE once nothing more is admitted

vars == <<next, pending, settled, fate, open>>

Init ==
    /\ next = 1
    /\ pending = <<>>
    /\ settled = <<>>
    /\ fate = [e \in Events |-> "none"]
    /\ open = TRUE

(* The next event is admitted. *)
Admit ==
    /\ open
    /\ next <= MaxEvents
    /\ pending' = Append(pending, next)
    /\ next' = next + 1
    /\ UNCHANGED <<settled, fate, open>>

(* The next event is turned away: it is never pending, never settled. *)
TurnAway ==
    /\ next <= MaxEvents
    /\ next' = next + 1
    /\ UNCHANGED <<pending, settled, fate, open>>

(* The batch made of the oldest pending events is settled as a whole. *)
Settle(batch, rest, f) ==
    /\ pending = batch \o rest
    /\ pending' = rest
    /\ settled' = settled \o batch
    /\ fate' = [e \in Events |-> IF e \in ToSet(batch) THEN f ELSE fate[e]]

SettleBatch ==
    /\ \E n \in 1..Len(pending), f \in Fates :
          Settle(SubSeq(pending, 1, n), SubSeq(pending, n + 1, Len(pending)), f)
    /\ UNCHANGED <<next, open>>

(* The channel closes: what is pending is lost. *)
Close ==
    /\ open
    /\ open' = FALSE
    /\ Settle(pending, <<>>, "lost")
    /\ UNCHANGED next

Next == Admit \/ TurnAway \/ SettleBatch \/ Close

Spec == Init /\ [][Next]_vars

FairSpec == Spec /\ WF_vars(SettleBatch)
=============================================================================
