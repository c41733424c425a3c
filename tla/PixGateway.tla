------------------------------ MODULE PixGateway ------------------------------
(***************************************************************************)
(* The client of the PIX gateway (AbacatePayClient): a call is one request, *)
(* and a second one when the first had no clear answer.  The gateway is     *)
(* external and does not know its requests by their reference: each that    *)
(* reaches it is carried out, also when nobody waits for it any more.       *)
(***************************************************************************)
EXTENDS Integers, Sequences, FiniteSets

CONSTANTS None,
          Orders,           \* calls of the client; its externalReferenceId
          Decimals,         \* amounts as text: the digits before and after the point
          RawStatuses       \* what the gateway says of a charge or a transfer

VARIABLES order,            \* each call
          wire,             \* its requests, and their answers
          operations        \* what the gateway has carried out

vars == <<order, wire, operations>>

MAX_ATTEMPTS == 2

NoAnswerYet(state) == [state |-> state, result |-> None]

Init ==
  /\ order = [o \in Orders |-> [pc |-> "idle", op |-> None, asked |-> None, id |-> 0,
                                attempt |-> 0, unclear |-> 0, outcome |-> None, result |-> None]]
  /\ wire = [o \in Orders |-> [a \in 1 .. MAX_ATTEMPTS |-> NoAnswerYet("none")]]
  /\ operations = <<>>

-----------------------------------------------------------------------------
(* Amounts, by their digits.                                               *)

PadEnd(frac) ==
  IF frac = <<>> THEN 0 ELSE 10 * frac[1] + (IF Len(frac) = 1 THEN 0 ELSE frac[2])

DecimalStringToCents(d) == 100 * d.whole + PadEnd(d.frac)

ValidAmount(d) == Len(d.frac) <= 2 /\ DecimalStringToCents(d) > 0

CentsToDecimalString(cents) ==
  [whole |-> cents \div 100, frac |-> <<(cents \div 10) % 10, cents % 10>>]

ChargeStatus(raw) ==
  CASE raw \in {"PENDING", "WAITING", "CREATED"} -> "PENDING"
    [] raw \in {"PAID", "COMPLETED", "APPROVED"} -> "PAID"
    [] raw \in {"CANCELLED", "CANCELED"} -> "CANCELLED"
    [] raw \in {"EXPIRED", "REFUNDED", "FAILED"} -> raw
    [] OTHER -> "UNKNOWN"

WithdrawalStatus(raw) ==
  CASE raw \in {"PENDING", "WAITING", "CREATED"} -> "PENDING"
    [] raw \in {"PROCESSING", "IN_PROGRESS"} -> "PROCESSING"
    [] raw \in {"PAID", "COMPLETED", "APPROVED"} -> "COMPLETED"
    [] raw \in {"FAILED", "REJECTED"} -> "FAILED"
    [] raw \in {"CANCELLED", "CANCELED"} -> "CANCELLED"
    [] OTHER -> "UNKNOWN"

\* mapCharge, mapWithdrawal.
Result(op, id, row) ==
  [id |-> id, amount |-> CentsToDecimalString(row.cents),
   status |-> IF op = "withdrawal" THEN WithdrawalStatus(row.raw) ELSE ChargeStatus(row.raw)]

-----------------------------------------------------------------------------
(* The calls.  Nothing is sent for an amount that is none.                  *)

Ended(q, outcome) == [q EXCEPT !.pc = "ended", !.outcome = outcome]

Ask(o, op, d) ==
  /\ order[o].pc = "idle"
  /\ order' = [order EXCEPT ![o] =
       LET q == [@ EXCEPT !.op = op, !.asked = d]
       IN  IF ValidAmount(d) THEN [q EXCEPT !.pc = "send"] ELSE Ended(q, "invalidAmount")]
  /\ UNCHANGED <<wire, operations>>

CreatePixCharge(o) == \E d \in Decimals : Ask(o, "charge", d)
RequestPixWithdrawal(o) == \E d \in Decimals : Ask(o, "withdrawal", d)

\* The id of the gateway, which only an answer tells.
GetPixCharge(o) ==
  /\ order[o].pc = "idle"
  /\ \E p \in Orders :
       /\ order[p].op = "charge" /\ order[p].outcome = "done"
       /\ order' = [order EXCEPT ![o].pc = "send", ![o].op = "get", ![o].id = order[p].result.id]
  /\ UNCHANGED <<wire, operations>>

Send(o) ==
  LET a == order[o].attempt + 1
  IN  /\ order[o].pc = "send"
      /\ order' = [order EXCEPT ![o].pc = "wait", ![o].attempt = a]
      /\ wire' = [wire EXCEPT ![o][a] = NoAnswerYet("sent")]
      /\ UNCHANGED operations

-----------------------------------------------------------------------------
(* The gateway.                                                            *)

Answers(o, a, state, result) ==
  wire' = [wire EXCEPT ![o][a] = [state |-> state, result |-> result]]

\* Carried out, and answered with a body of the contract, with another, or 5xx.
CarriesOut(o, a) ==
  LET q == order[o]
      new == [ref |-> o, cents |-> DecimalStringToCents(q.asked), raw |-> "PENDING"]
  IN  /\ wire[o][a].state = "sent"
      /\ \/ q.op = "get" /\ Answers(o, a, "ok", Result(q.op, q.id, operations[q.id]))
         \/ q.op # "get" /\ Answers(o, a, "ok", Result(q.op, Len(operations) + 1, new))
         \/ \E state \in {"malformed", "5xx"} : Answers(o, a, state, None)
      /\ operations' = IF q.op = "get" THEN operations ELSE Append(operations, new)
      /\ UNCHANGED order

TurnsDown(o, a) ==
  /\ wire[o][a].state = "sent"
  /\ \E state \in {"4xx", "5xx"} : Answers(o, a, state, None)
  /\ UNCHANGED <<order, operations>>

Settles(i) ==
  /\ operations[i].raw = "PENDING"
  /\ \E raw \in RawStatuses : operations' = [operations EXCEPT ![i].raw = raw]
  /\ UNCHANGED <<order, wire>>

-----------------------------------------------------------------------------
(* send: what the answer, or that there is none, leads to.                  *)

\* Mutant: whatever has a status is the fault of the request.
AnyStatusIsClient(answer) == IF answer \in {"4xx", "5xx"} THEN "client" ELSE answer

Classify(answer) ==
  CASE answer = "4xx" -> "client"
    [] answer = "5xx" -> "server"
    [] OTHER -> answer

\* Mutant: a defect is tried again too.
AnythingButClient(kind) == kind # "client"

Retryable(kind) == kind \in {"server", "network"}

Failed(q, kind) ==
  LET seen == IF kind = "unknown" THEN q ELSE [q EXCEPT !.unclear = @ + 1]
  IN  CASE kind = "client" -> Ended(q, "refused")
        [] kind # "client" /\ Retryable(kind) /\ q.attempt < MAX_ATTEMPTS -> [seen EXCEPT !.pc = "send"]
        [] OTHER -> Ended(seen, "unavailable")

Receive(o) ==
  LET q == order[o]
      answer == wire[o][q.attempt]
  IN  /\ q.pc = "wait" /\ answer.state # "sent"
      /\ order' = [order EXCEPT ![o] =
           CASE answer.state = "ok" -> [Ended(q, "done") EXCEPT !.result = answer.result]
             [] answer.state = "malformed" -> Ended(q, "unexpected")
             [] OTHER -> Failed(q, Classify(answer.state))]
      /\ UNCHANGED <<wire, operations>>

\* A time-out or a broken connection, wherever the request is by then.
NoAnswer(o) ==
  /\ order[o].pc = "wait"
  /\ order' = [order EXCEPT ![o] = Failed(@, "network")]
  /\ UNCHANGED <<wire, operations>>

\* An error that is none of axios, after the request has left.
Defect(o) ==
  /\ order[o].pc = "wait"
  /\ order' = [order EXCEPT ![o] = Failed(@, "unknown")]
  /\ UNCHANGED <<wire, operations>>

Next ==
  \/ \E o \in Orders :
       \/ CreatePixCharge(o) \/ RequestPixWithdrawal(o) \/ GetPixCharge(o)
       \/ Send(o) \/ Receive(o) \/ NoAnswer(o) \/ Defect(o)
       \/ \E a \in 1 .. MAX_ATTEMPTS : CarriesOut(o, a) \/ TurnsDown(o, a)
  \/ \E i \in DOMAIN operations : Settles(i)

Spec == Init /\ [][Next]_vars

-----------------------------------------------------------------------------

Of(o) == {i \in DOMAIN operations : operations[i].ref = o}

Thousandths(d) ==
  1000 * d.whole + (IF Len(d.frac) > 0 THEN 100 * d.frac[1] ELSE 0)
    + (IF Len(d.frac) > 1 THEN 10 * d.frac[2] ELSE 0) + (IF Len(d.frac) > 2 THEN d.frac[3] ELSE 0)

\* What a call ends with is true of the gateway, now and later: an amount that is
\* invalid and a first request that was refused did nothing; a result is of an operation
\* of this call, for exactly the amount asked for (comments of errors.ts, amount.util.ts).
OutcomeIsHonest ==
  \A o \in Orders :
    LET q == order[o]
    IN  /\ (q.outcome = "invalidAmount" \/ (q.outcome = "refused" /\ q.attempt = 1)) => Of(o) = {}
        /\ q.outcome = "done" /\ q.op # "get" =>
             q.result.id \in Of(o) /\ Thousandths(q.result.amount) = Thousandths(q.asked)

\* A call is carried out twice only when its first request had no clear answer, and
\* never more often (comments of MAX_ATTEMPTS and of send).
TwiceOnlyIfUnclear ==
  \A o \in Orders :
    /\ Cardinality(Of(o)) <= 1 + order[o].unclear
    /\ Cardinality(Of(o)) <= 2
=============================================================================
