---------------------------- MODULE SyncChannel -----------------------------
(***************************************************************************)
(* What the RMAP layer promises its users, without slots, transaction ids  *)
(* or receive loops: a transfer knows the address it was asked for, the    *)
(* answer to a read is stored at that address or not at all, answers are   *)
(* stored in the order of the requests, and nothing but the application    *)
(* and such an answer ever changes the mirror.                             *)
(***************************************************************************)
EXTENDS Integers, Sequences

CONSTANTS MemWords, Value, Value0, RdRegs

VARIABLES requests, answers, mirror, remote

chan == <<requests, answers, mirror, remote>>

Addr == 0 .. (MemWords - 1)

ReadBack(m, a, n) == [i \in 1 .. n |-> m[a + i - 1]]
Overlay(m, a, d)  ==
  [w \in Addr |-> IF w \in a .. (a + Len(d) - 1) THEN d[w - a + 1] ELSE m[w]]

Init ==
  /\ requests = <<>>
  /\ answers = <<>>
  /\ mirror = [w \in Addr |-> Value0]
  /\ remote = [w \in Addr |-> Value0]

(* The application changes a word of its mirror.                           *)
Set == /\ \E a \in Addr, v \in Value : mirror' = [mirror EXCEPT ![a] = v]
       /\ UNCHANGED <<requests, answers, remote>>

(* A write carries the words of the mirror at the time it is submitted.    *)
Submit ==
  /\ \E a \in Addr : \E n \in 1 .. (MemWords - a) :
       \E r \in {[kind |-> "read", addr |-> a, len |-> n, data |-> <<>>],
                 [kind |-> "write", addr |-> a, len |-> n,
                  data |-> ReadBack(mirror, a, n)]} :
         requests' = Append(requests, r)
  /\ UNCHANGED <<answers, mirror, remote>>

Perform ==
  /\ requests # <<>>
  /\ LET r == Head(requests) IN
       IF r.kind = "write"
         THEN /\ remote' = Overlay(remote, r.addr, r.data)
              /\ answers' = Append(answers, [addr |-> r.addr, data |-> <<>>])
         ELSE /\ answers' = Append(answers,
                   [addr |-> r.addr, data |-> ReadBack(remote, r.addr, r.len)])
              /\ UNCHANGED remote
  /\ requests' = Tail(requests)
  /\ UNCHANGED mirror

(* A request is lost, or refused with an answer that carries no data.      *)
Refuse ==
  /\ requests # <<>>
  /\ requests' = Tail(requests)
  /\ \/ UNCHANGED answers
     \/ answers' = Append(answers,
                     [addr |-> Head(requests).addr, data |-> <<>>])
  /\ UNCHANGED <<mirror, remote>>

(* The oldest answer is stored where it was asked for, or discarded.       *)
Store ==
  /\ answers # <<>>
  /\ answers' = Tail(answers)
  /\ \/ mirror' = Overlay(mirror, Head(answers).addr, Head(answers).data)
     \/ UNCHANGED mirror
  /\ UNCHANGED <<requests, remote>>

(* The hardware changes a status register.                                 *)
Update == /\ \E r \in RdRegs, v \in Value : remote' = [remote EXCEPT ![r] = v]
          /\ UNCHANGED <<requests, answers, mirror>>

Next == Set \/ Submit \/ Perform \/ Refuse \/ Store \/ Update

Spec == Init /\ [][Next]_chan
=============================================================================
