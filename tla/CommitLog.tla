------------------------------ MODULE CommitLog ------------------------------
(***************************************************************************)
(* What the append journal of crates/fss-ledger promises to the ledger that *)
(* writes through it, without cells, offsets or synchronisation. A root is  *)
(* the sequence of payloads up to and including a record.                   *)
(*                                                                          *)
(*   history    what recovery reads                                         *)
(*   attempt    root of the append whose outcome is not known yet           *)
(*   acked      root of the last append reported as committed               *)
(*   retracted  roots of the appends reported as not committed              *)
(***************************************************************************)
EXTENDS Naturals, Sequences, SequencesExt

CONSTANT Payloads

VARIABLES history, attempt, acked, retracted

logVars == <<history, attempt, acked, retracted>>

LogTypeOK ==
  /\ history \in Seq(Payloads) /\ attempt \in Seq(Payloads)
  /\ acked \in Seq(Payloads) /\ retracted \subseteq Seq(Payloads)

LogInit ==
  /\ history = <<>> /\ attempt = <<>> /\ acked = <<>> /\ retracted = {}

(* An append starts: it extends exactly the history that is there.          *)
LogBegin(v) ==
  /\ attempt = <<>>
  /\ attempt' = Append(history, v)
  /\ UNCHANGED <<history, acked, retracted>>

(* The last cell of the attempted record reaches the file.                  *)
LogAppear ==
  /\ attempt # <<>>
  /\ history = Front(attempt)
  /\ history' = attempt
  /\ UNCHANGED <<attempt, acked, retracted>>

(* The record is reported as committed, or as not committed.                *)
LogAck ==
  /\ attempt # <<>> /\ history = attempt
  /\ acked' = attempt /\ attempt' = <<>>
  /\ UNCHANGED <<history, retracted>>

LogRetract ==
  /\ attempt # <<>> /\ history = Front(attempt)
  /\ retracted' = retracted \cup {attempt} /\ attempt' = <<>>
  /\ UNCHANGED <<history, acked>>

(* The process dies: nobody waits for the attempt any more.                 *)
LogForget ==
  /\ attempt' = <<>>
  /\ UNCHANGED <<history, acked, retracted>>

(* Power is lost: records that were never acknowledged may be gone.         *)
LogCrash ==
  /\ attempt' = <<>>
  /\ \E n \in Len(acked) .. Len(history) : history' = SubSeq(history, 1, n)
  /\ UNCHANGED <<acked, retracted>>

LogNext ==
  \/ \E v \in Payloads : LogBegin(v)
  \/ LogAppear \/ LogAck \/ LogRetract \/ LogForget \/ LogCrash

LogSpec == LogInit /\ [][LogNext]_logVars
=============================================================================
