--------------------------- MODULE RdcuSyncProofs ---------------------------
(***************************************************************************)
(* What the users of the RMAP layer may rely on, proved of RdcuRmap with   *)
(* its history variable (MCRdcuRmap): it implements SyncChannel, for every *)
(* size of the log, every memory and every set of faults.                  *)
(***************************************************************************)
EXTENDS MCRdcuRmap, RdcuRmapProofs

IsMap(f, S, T) == f \in [S -> T]

(* A sequence with f applied to its elements.                              *)
Mapped(f, q) == [i \in 1 .. Len(q) |-> f[q[i]]]

(* It is a sequence of the same length, element by element.                *)
LEMMA MappedSeq ==
  ASSUME NEW S, NEW T, NEW f, IsMap(f, S, T), NEW q \in Seq(S)
  PROVE  /\ Mapped(f, q) \in Seq(T)
         /\ Len(Mapped(f, q)) = Len(q)
         /\ \A i \in 1 .. Len(q) : Mapped(f, q)[i] = f[q[i]]
<1>1. Len(q) \in Nat /\ \A i \in 1 .. Len(q) : f[q[i]] \in T
  BY LenProperties, ElementOfSeq DEF IsMap
<1> QED
  BY <1>1, IsASeq DEF Mapped

(* Mapping commutes with Append, Head and Tail.                            *)
LEMMA MappedAppend ==
  ASSUME NEW S, NEW T, NEW f, IsMap(f, S, T), NEW q \in Seq(S), NEW e \in S
  PROVE  Mapped(f, Append(q, e)) = Append(Mapped(f, q), f[e])
<1> DEFINE l == Mapped(f, Append(q, e))
           r == Append(Mapped(f, q), f[e])
<1>1. /\ Len(q) \in Nat
      /\ Append(q, e) \in Seq(S)
      /\ Len(Append(q, e)) = Len(q) + 1
      /\ Append(q, e)[Len(q) + 1] = e
      /\ \A i \in 1 .. Len(q) : Append(q, e)[i] = q[i]
  BY Appended, LenProperties
<1>2. /\ l \in Seq(T) /\ Len(l) = Len(Append(q, e))
      /\ \A i \in 1 .. Len(Append(q, e)) : l[i] = f[Append(q, e)[i]]
  <2>1. PICK p \in Seq(S) : p = Append(q, e)
    BY <1>1
  <2>2. /\ Mapped(f, p) \in Seq(T) /\ Len(Mapped(f, p)) = Len(p)
        /\ \A i \in 1 .. Len(p) : Mapped(f, p)[i] = f[p[i]]
    BY MappedSeq
  <2> QED
    BY <2>1, <2>2
<1>3. /\ Mapped(f, q) \in Seq(T) /\ Len(Mapped(f, q)) = Len(q)
      /\ \A i \in 1 .. Len(q) : Mapped(f, q)[i] = f[q[i]]
  BY MappedSeq
<1>a. f[e] \in T
  BY DEF IsMap
<1>4. /\ r \in Seq(T) /\ Len(r) = Len(q) + 1
      /\ r[Len(q) + 1] = f[e]
      /\ \A i \in 1 .. Len(q) : r[i] = f[q[i]]
  BY <1>1, <1>3, <1>a, Appended
<1> HIDE DEF l, r
<1>5. \A i \in 1 .. Len(q) + 1 : i \in 1 .. Len(q) \/ i = Len(q) + 1
  BY <1>1
<1>6. \A i \in 1 .. Len(l) : l[i] = r[i]
  BY <1>1, <1>2, <1>4, <1>5
<1>7. l = r
  BY <1>2, <1>4, <1>6, SeqEqual
<1> QED
  BY <1>7 DEF l, r

(* Taking the head commutes with it.                                       *)
LEMMA MappedTail ==
  ASSUME NEW S, NEW T, NEW f, IsMap(f, S, T), NEW q \in Seq(S), q # <<>>
  PROVE  /\ Mapped(f, q) # <<>>
         /\ Head(Mapped(f, q)) = f[Head(q)]
         /\ Mapped(f, Tail(q)) = Tail(Mapped(f, q))
<1> DEFINE l == Mapped(f, Tail(q))
           r == Tail(Mapped(f, q))
<1>1. /\ Len(q) \in Nat \ {0}
      /\ Tail(q) \in Seq(S)
      /\ Len(Tail(q)) = Len(q) - 1
      /\ Head(q) = q[1]
      /\ \A i \in 1 .. Len(Tail(q)) : Tail(q)[i] = q[i + 1]
  BY HeadAndTail
<1>2. /\ Mapped(f, q) \in Seq(T) /\ Len(Mapped(f, q)) = Len(q)
      /\ \A i \in 1 .. Len(q) : Mapped(f, q)[i] = f[q[i]]
  BY MappedSeq
<1>3. Mapped(f, q) # <<>>
  BY <1>1, <1>2
<1>4. /\ r \in Seq(T) /\ Len(r) = Len(q) - 1
      /\ Head(Mapped(f, q)) = Mapped(f, q)[1]
      /\ \A i \in 1 .. Len(q) - 1 : r[i] = Mapped(f, q)[i + 1]
  BY <1>2, <1>3, HeadAndTail
<1>5. /\ l \in Seq(T) /\ Len(l) = Len(Tail(q))
      /\ \A i \in 1 .. Len(Tail(q)) : l[i] = f[Tail(q)[i]]
  <2>1. PICK p \in Seq(S) : p = Tail(q)
    BY <1>1
  <2>2. /\ Mapped(f, p) \in Seq(T) /\ Len(Mapped(f, p)) = Len(p)
        /\ \A i \in 1 .. Len(p) : Mapped(f, p)[i] = f[p[i]]
    BY MappedSeq
  <2> QED
    BY <2>1, <2>2
<1> HIDE DEF l, r
<1>6. \A i \in 1 .. Len(q) - 1 : i + 1 \in 1 .. Len(q)
  BY <1>1
<1>7. \A i \in 1 .. Len(l) : l[i] = r[i]
  BY SMTT(30), <1>1, <1>2, <1>4, <1>5, <1>6
<1>8. l = r
  BY <1>4, <1>5, <1>7, SeqEqual
<1>9. 1 \in 1 .. Len(q)
  BY <1>1
<1> QED
  BY <1>1, <1>2, <1>3, <1>4, <1>8, <1>9 DEF l, r
-----------------------------------------------------------------------------
(* What a user sees of a command and of a reply.                           *)
RequestOf == [c \in Command |-> [kind |-> c.kind, addr |-> c.addr,
                                 len |-> c.len, data |-> c.data]]
AnswerOf  == [r \in Reply |-> [addr |-> r.addr, data |-> r.data]]

(* The channel sees the commands and the replies without their transaction *)
(* ids.                                                                    *)
LEMMA Forgets ==
  ASSUME TypeOK
  PROVE  Requests = Mapped(RequestOf, cmds) /\ Answers = Mapped(AnswerOf, replies)
<1>1. /\ \A i \in 1 .. Len(cmds) : cmds[i] \in Command
      /\ \A i \in 1 .. Len(replies) : replies[i] \in Reply
  BY ElementOfSeq DEF TypeOK
<1> QED
  BY <1>1 DEF Requests, Answers, Mapped, RequestOf, AnswerOf

(* The same after a step.                                                  *)
LEMMA ForgetsNext ==
  ASSUME TypeOK'
  PROVE  Requests' = Mapped(RequestOf, cmds') /\ Answers' = Mapped(AnswerOf, replies')
<1>1. /\ \A i \in 1 .. Len(cmds') : cmds'[i] \in Command
      /\ \A i \in 1 .. Len(replies') : replies'[i] \in Reply
  BY ElementOfSeq DEF TypeOK
<1> QED
  BY <1>1 DEF Requests, Answers, Mapped, RequestOf, AnswerOf

(* The two ways to say that words are stored or read are the same.         *)
LEMMA SameMemory ==
  ASSUME NEW m \in [Addr -> Value], NEW a \in Addr
  PROVE  /\ \A d \in Seq(Value) : Stored(m, a, d) = Chan!Overlay(m, a, d)
         /\ \A n \in Nat : WordsAt(m, a, n) = Chan!ReadBack(m, a, n)
<1>1. ASSUME NEW d \in Seq(Value)
      PROVE  Stored(m, a, d) = Chan!Overlay(m, a, d)
  <2>1. \A w \in Addr :
          (a <= w /\ w < a + Len(d)) <=> w \in a .. (a + Len(d) - 1)
    BY LenProperties, MemAssumption DEF Addr
  <2> QED
    BY <2>1 DEF Stored, Chan!Overlay, Chan!Addr, Addr
<1> QED
  BY <1>1 DEF WordsAt, Chan!ReadBack

(* The queues of the channel move with the queues of the link.             *)
LEMMA RequestSteps ==
  ASSUME TypeOK, TypeOK'
  PROVE  /\ cmds' = cmds => Requests' = Requests
         /\ \A c \in Command :
              cmds' = Append(cmds, c) => Requests' = Append(Requests, RequestOf[c])
         /\ cmds # <<>> /\ cmds' = Tail(cmds) =>
              /\ Requests # <<>>
              /\ Head(Requests) = RequestOf[Head(cmds)]
              /\ Requests' = Tail(Requests)
<1> DEFINE T == {RequestOf[c] : c \in Command}
<1>1. IsMap(RequestOf, Command, T)
  BY DEF IsMap, RequestOf
<1>2. cmds \in Seq(Command)
  BY DEF TypeOK
<1>3. Requests = Mapped(RequestOf, cmds) /\ Requests' = Mapped(RequestOf, cmds')
  BY Forgets, ForgetsNext
<1> HIDE DEF T
<1>4. ASSUME NEW c \in Command, cmds' = Append(cmds, c)
      PROVE  Requests' = Append(Requests, RequestOf[c])
  <2>1. Mapped(RequestOf, Append(cmds, c))
          = Append(Mapped(RequestOf, cmds), RequestOf[c])
    BY <1>1, <1>2, MappedAppend
  <2> QED
    BY <1>3, <1>4, <2>1
<1>5. ASSUME cmds # <<>>, cmds' = Tail(cmds)
      PROVE  /\ Requests # <<>>
             /\ Head(Requests) = RequestOf[Head(cmds)]
             /\ Requests' = Tail(Requests)
  <2>1. /\ Mapped(RequestOf, cmds) # <<>>
        /\ Head(Mapped(RequestOf, cmds)) = RequestOf[Head(cmds)]
        /\ Mapped(RequestOf, Tail(cmds)) = Tail(Mapped(RequestOf, cmds))
    BY <1>1, <1>2, <1>5, MappedTail
  <2> QED
    BY <1>3, <1>5, <2>1
<1> QED
  BY <1>3, <1>4, <1>5

(* What a step does to the replies it does to the answers of the channel.  *)
LEMMA AnswerSteps ==
  ASSUME TypeOK, TypeOK'
  PROVE  /\ replies' = replies => Answers' = Answers
         /\ \A r \in Reply :
              replies' = Append(replies, r) => Answers' = Append(Answers, AnswerOf[r])
         /\ replies # <<>> /\ replies' = Tail(replies) =>
              /\ Answers # <<>>
              /\ Head(Answers) = AnswerOf[Head(replies)]
              /\ Answers' = Tail(Answers)
<1> DEFINE T == {AnswerOf[r] : r \in Reply}
<1>1. IsMap(AnswerOf, Reply, T)
  BY DEF IsMap, AnswerOf
<1>2. replies \in Seq(Reply)
  BY DEF TypeOK
<1>3. Answers = Mapped(AnswerOf, replies) /\ Answers' = Mapped(AnswerOf, replies')
  BY Forgets, ForgetsNext
<1> HIDE DEF T
<1>4. ASSUME NEW r \in Reply, replies' = Append(replies, r)
      PROVE  Answers' = Append(Answers, AnswerOf[r])
  <2>1. Mapped(AnswerOf, Append(replies, r))
          = Append(Mapped(AnswerOf, replies), AnswerOf[r])
    BY <1>1, <1>2, MappedAppend
  <2> QED
    BY <1>3, <1>4, <2>1
<1>5. ASSUME replies # <<>>, replies' = Tail(replies)
      PROVE  /\ Answers # <<>>
             /\ Head(Answers) = AnswerOf[Head(replies)]
             /\ Answers' = Tail(Answers)
  <2>1. /\ Mapped(AnswerOf, replies) # <<>>
        /\ Head(Mapped(AnswerOf, replies)) = AnswerOf[Head(replies)]
        /\ Mapped(AnswerOf, Tail(replies)) = Tail(Mapped(AnswerOf, replies))
    BY <1>1, <1>2, <1>5, MappedTail
  <2> QED
    BY <1>3, <1>5, <2>1
<1> QED
  BY <1>3, <1>4, <1>5
-----------------------------------------------------------------------------
(* A call that has got past its arguments is about at least one word.      *)
CmdInv == call \in {"rx_data", "grab", "rx_submit", "tx"} => cmd.len >= 1

(* What the refinement rests on.                                           *)
ChanInv == TypeOK /\ LogInv /\ CmdInv

(* No step of the library prepares a command without a word.               *)
LEMMA CmdInvStep == TypeOK /\ CmdInv /\ [AnyStep]_vars => CmdInv'
<1> SUFFICES ASSUME TypeOK, CmdInv, [AnyStep]_vars PROVE CmdInv'
  OBVIOUS
<1>0. ASSUME NEW k, NEW a, NEW n, n >= 1, Prepare(k, a, n) PROVE CmdInv'
  BY <1>0 DEF Prepare, Return, CmdInv
<1>1. CASE Application
  <2>1. ASSUME NEW k, NEW r, rdcu_sync(k, r) PROVE CmdInv'
    BY <1>0, <2>1 DEF rdcu_sync, Return, CmdInv
  <2>2. ASSUME NEW k, NEW b \in Blocks, rdcu_sync_data(k, b[1], b[2])
        PROVE  CmdInv'
    BY <2>2, BlockAssumption DEF rdcu_sync_data, Blocks, CmdInv, TypeOK, Command
  <2> QED
    BY <1>1, <2>1, <2>2
       DEF Application, rdcu_rmap_sync_status, SetMirror, CmdInv, lib
<1>2. CASE rdcu_process_rx
  BY <1>2 DEF rdcu_process_rx, RxSkip, RxDropTransaction, RxAccept, RxEmpty,
    RxAllocFail, AfterRx, RxLoop, CmdInv, lib
<1>3. CASE SyncDataGrab
  BY <1>0, <1>3 DEF SyncDataGrab, Return, CmdInv
<1>4. CASE rdcu_submit_tx \/ SyncStatusReturn
  BY <1>4 DEF rdcu_submit_tx, SyncStatusReturn, Return, CmdInv
<1>5. CASE Environment
  BY <1>5 DEF Environment, TargetExecute, TargetReject, LoseCommand,
    LoseReply, DamageReply, RemoteUpdate, CmdInv, lib
<1>6. CASE rdcu_rmap_reset_log \/ UNCHANGED vars
  BY <1>6 DEF rdcu_rmap_reset_log, vars, lib, CmdInv
<1> QED
  BY <1>1, <1>2, <1>3, <1>4, <1>5, <1>6 DEF AnyStep, Next, LibStep

(* A log reset with nothing on the link keeps it.                          *)
LEMMA ChanInvStep == ChanInv /\ [Next \/ QuietReset]_vars => ChanInv'
<1> SUFFICES ASSUME ChanInv, [Next \/ QuietReset]_vars PROVE ChanInv'
  OBVIOUS
<1>1. TypeOK' /\ CmdInv'
  BY TypeStep, CmdInvStep DEF ChanInv, AnyStep, QuietReset
<1>2. CASE QuietReset
  <2>1. cmds' = <<>> /\ replies' = <<>> /\ ~Submitting'
    BY <1>2 DEF QuietReset, rdcu_rmap_reset_log, link, Submitting
  <2>2. Len(cmds') = 0 /\ Len(replies') = 0
    BY <2>1, EmptySeq
  <2> QED
    BY <1>1, <2>1, <2>2 DEF ChanInv, LogInv, AllHoldSlots, NoSharedSlot
<1> QED
  BY <1>1, <1>2, LogInvStep DEF ChanInv
-----------------------------------------------------------------------------
(* The steps of the link and of the library as steps of the channel.       *)

(* rdcu_submit_tx hands a request to the channel, or its packet is refused *)
(* and the channel does not notice.                                        *)
LEMMA SubmitIsSubmit ==
  ASSUME ChanInv, TypeOK', rdcu_submit_tx
  PROVE  Chan!Submit \/ UNCHANGED Chan!chan
<1> DEFINE c == [cmd EXCEPT !.data = IF cmd.kind = "write"
                   THEN WordsAt(mirror, cmd.addr, cmd.len) ELSE <<>>]
<1>1. CASE cmds' = cmds
  BY <1>1, RequestSteps, AnswerSteps DEF rdcu_submit_tx, Chan!chan, ChanInv
<1>2. CASE cmds' = Append(cmds, c)
  <2>1. /\ cmd.addr \in Addr /\ cmd.len \in 1 .. (MemWords - cmd.addr)
        /\ cmd.kind \in Kind /\ mirror \in [Addr -> Value]
    BY MemAssumption DEF ChanInv, TypeOK, Command, CmdInv, rdcu_submit_tx, Addr
  <2>2. WordsAt(mirror, cmd.addr, cmd.len) \in Seq(Value)
    BY SMTT(30), <2>1, WordsAreValues, MemAssumption DEF Addr
  <2>3. c \in Command
    BY <2>2, EmptySeq DEF ChanInv, TypeOK, Command
  <2>4. RequestOf[c] = [kind |-> cmd.kind, addr |-> cmd.addr, len |-> cmd.len,
                        data |-> IF cmd.kind = "write"
                                 THEN Chan!ReadBack(mirror, cmd.addr, cmd.len)
                                 ELSE <<>>]
    BY <2>1, <2>3, SameMemory DEF RequestOf, ChanInv, TypeOK, Command
  <2> HIDE DEF c
  <2>5. Requests' = Append(Requests, RequestOf[c])
    BY <1>2, <2>3, RequestSteps DEF ChanInv
  <2>6. UNCHANGED <<Answers, mirror, remote>>
    BY AnswerSteps DEF rdcu_submit_tx, ChanInv
  <2>7. RequestOf[c] \in
          {[kind |-> "read", addr |-> cmd.addr, len |-> cmd.len, data |-> <<>>],
           [kind |-> "write", addr |-> cmd.addr, len |-> cmd.len,
            data |-> Chan!ReadBack(mirror, cmd.addr, cmd.len)]}
    BY <2>1, <2>4 DEF Kind
  <2> QED
    BY <2>1, <2>5, <2>6, <2>7 DEF Chan!Submit, Chan!Addr, Addr
<1> QED
  BY <1>1, <1>2 DEF rdcu_submit_tx

(* An answer of the RDCU is an answer of the channel.                      *)
LEMMA Answered ==
  ASSUME TypeOK, TypeOK', NEW c \in Command, NEW f \in Form,
         NEW d \in Seq(Value), replies' = Append(replies, Answer(c, f, d))
  PROVE  Answers' = Append(Answers, [addr |-> c.addr, data |-> d])
<1>1. Answer(c, f, d) \in Reply
  BY AnswerType
<1>2. AnswerOf[Answer(c, f, d)] = [addr |-> c.addr, data |-> d]
  BY <1>1 DEF Answer, AnswerOf
<1>3. Answers' = Append(Answers, AnswerOf[Answer(c, f, d)])
  BY <1>1, AnswerSteps
<1> QED
  BY <1>2, <1>3

(* The RDCU performs the oldest request.                                   *)
LEMMA TargetIsPerform ==
  ASSUME ChanInv, TypeOK', TargetExecute
  PROVE  Chan!Perform
<1> DEFINE c == Head(cmds)
           r == Head(Requests)
<1>1. c \in Command /\ remote \in [Addr -> Value]
  BY HeadAndTail DEF ChanInv, TypeOK, TargetExecute
<1>2. /\ Requests # <<>> /\ Requests' = Tail(Requests)
      /\ r = RequestOf[c]
  BY RequestSteps DEF ChanInv, TargetExecute
<1>3. /\ r.kind = c.kind /\ r.addr = c.addr /\ r.len = c.len /\ r.data = c.data
      /\ c.kind \in Kind /\ c.addr \in Addr /\ c.len \in Nat
      /\ c.data \in Seq(Value) /\ c.addr + c.len <= MemWords
  BY <1>1, <1>2 DEF RequestOf, Command
<1>4. "ok" \in Form /\ <<>> \in Seq(Value)
  BY EmptySeq DEF Form
<1>5. mirror' = mirror
  BY DEF TargetExecute
<1>6. CASE c.kind = "write"
  <2>1. /\ remote' = Stored(remote, c.addr, c.data)
        /\ replies' = Append(replies, Answer(c, "ok", <<>>))
    BY <1>6 DEF TargetExecute
  <2>2. Answers' = Append(Answers, [addr |-> c.addr, data |-> <<>>])
    BY <1>1, <1>4, <2>1, Answered DEF ChanInv
  <2>3. remote' = Chan!Overlay(remote, c.addr, c.data)
    BY <1>1, <1>3, <2>1, SameMemory
  <2> QED
    BY <1>2, <1>3, <1>5, <1>6, <2>2, <2>3 DEF Chan!Perform
<1>7. CASE c.kind = "read"
  <2>1. /\ remote' = remote
        /\ replies' = Append(replies,
                        Answer(c, "ok", WordsAt(remote, c.addr, c.len)))
    BY <1>7 DEF TargetExecute
  <2>2. WordsAt(remote, c.addr, c.len) \in Seq(Value)
    BY <1>1, <1>3, WordsAreValues
  <2>3. Answers' = Append(Answers, [addr |-> c.addr,
                                    data |-> WordsAt(remote, c.addr, c.len)])
    BY <1>1, <1>4, <2>1, <2>2, Answered DEF ChanInv
  <2>4. WordsAt(remote, c.addr, c.len) = Chan!ReadBack(remote, c.addr, c.len)
    BY <1>1, <1>3, SameMemory
  <2> QED
    BY <1>2, <1>3, <1>5, <1>7, <2>1, <2>3, <2>4 DEF Chan!Perform
<1> QED
  BY <1>3, <1>6, <1>7 DEF Kind

(* A command that is lost or rejected is a request that is not performed.  *)
LEMMA LossIsRefuse ==
  ASSUME ChanInv, TypeOK', TargetReject \/ LoseCommand
  PROVE  Chan!Refuse
<1>1. /\ cmds # <<>> /\ cmds' = Tail(cmds)
      /\ \/ replies' = replies
         \/ replies' = Append(replies, Answer(Head(cmds), "rejected", <<>>))
      /\ UNCHANGED <<mirror, remote>>
  BY DEF TargetReject, LoseCommand
<1>2. /\ Requests # <<>> /\ Requests' = Tail(Requests)
      /\ Head(Requests) = RequestOf[Head(cmds)]
      /\ Head(cmds) \in Command
  BY <1>1, RequestSteps, HeadAndTail DEF ChanInv, TypeOK
<1>3. Head(Requests).addr = Head(cmds).addr
  BY <1>2 DEF RequestOf
<1>4. "rejected" \in Form /\ <<>> \in Seq(Value)
  BY EmptySeq DEF Form
<1>5. CASE replies' = replies
  BY <1>1, <1>2, <1>5, AnswerSteps DEF Chan!Refuse, ChanInv
<1>6. CASE replies' = Append(replies, Answer(Head(cmds), "rejected", <<>>))
  <2>1. Answers' = Append(Answers, [addr |-> Head(cmds).addr, data |-> <<>>])
    BY <1>2, <1>4, <1>6, Answered DEF ChanInv
  <2> QED
    BY <1>1, <1>2, <1>3, <2>1 DEF Chan!Refuse
<1> QED
  BY <1>1, <1>5, <1>6

(* A reply is taken off the link: stored where its command asked, or not.  *)
LEMMA TakenIsStore ==
  ASSUME ChanInv, TypeOK', RxSkip \/ RxDropTransaction \/ RxAccept \/ LoseReply
  PROVE  Chan!Store
<1>1. /\ replies # <<>> /\ replies' = Tail(replies)
      /\ UNCHANGED <<cmds, remote>>
  BY DEF RxSkip, RxDropTransaction, RxAccept, LoseReply
<1>2. /\ Answers # <<>> /\ Answers' = Tail(Answers)
      /\ Head(Answers) = AnswerOf[Head(replies)]
  BY <1>1, AnswerSteps DEF ChanInv
<1>3. Requests' = Requests
  BY <1>1, RequestSteps DEF ChanInv
<1>4. /\ Head(replies) = replies[1] /\ 1 \in 1 .. Len(replies)
      /\ Head(replies) \in Reply
  BY <1>1, HeadAndTail DEF ChanInv, TypeOK
<1>5. /\ Head(Answers).addr = Head(replies).addr
      /\ Head(Answers).data = Head(replies).data
      /\ Head(replies).addr \in Addr
      /\ Head(replies).data \in Seq(Value)
  <2>1. Head(Answers) = [addr |-> Head(replies).addr, data |-> Head(replies).data]
    BY <1>2, <1>4 DEF AnswerOf
  <2> QED
    BY <1>4, <2>1 DEF Reply
<1>6. CASE mirror' = mirror
  BY <1>1, <1>2, <1>3, <1>6 DEF Chan!Store
<1>7. CASE RxAccept
  <2>1. trans_log_get_addr(Head(replies).tid) = Head(replies).addr
    BY <1>4 DEF ChanInv, LogInv, AllHoldSlots, HoldsSlot, trans_log_get_addr
  <2>2. mirror' = Stored(mirror, Head(replies).addr, Head(replies).data)
    BY <1>7, <2>1 DEF RxAccept
  <2>3. mirror' = Chan!Overlay(mirror, Head(replies).addr, Head(replies).data)
    BY <1>5, <2>2, SameMemory DEF ChanInv, TypeOK
  <2> QED
    BY <1>1, <1>2, <1>3, <1>5, <2>3 DEF Chan!Store
<1> QED
  BY <1>6, <1>7 DEF RxSkip, RxDropTransaction, LoseReply

(* Damaging a reply changes what only the driver looks at.                 *)
LEMMA DamageIsStutter ==
  ASSUME ChanInv, TypeOK', DamageReply
  PROVE  UNCHANGED Chan!chan
<1>1. PICK i \in 1 .. Len(replies), f \in Form :
        replies' = [replies EXCEPT ![i].form = f]
  BY DEF DamageReply
<1>2. /\ \A j \in 1 .. Len(replies) : replies[j] \in Reply
      /\ DOMAIN replies = 1 .. Len(replies)
      /\ Len(replies') = Len(replies)
  BY <1>1, ElementOfSeq, LenProperties DEF ChanInv, TypeOK
<1>3. ASSUME NEW j \in 1 .. Len(replies)
      PROVE  replies'[j].addr = replies[j].addr /\ replies'[j].data = replies[j].data
  <2>1. replies'[j] = IF j = i THEN [replies[j] EXCEPT !.form = f]
                               ELSE replies[j]
    BY <1>1, <1>2
  <2> QED
    BY <1>2, <2>1 DEF Reply
<1>4. Answers' = Answers
  BY <1>2, <1>3 DEF Answers
<1>5. UNCHANGED <<Requests, mirror, remote>>
  BY RequestSteps DEF DamageReply, ChanInv
<1> QED
  BY <1>4, <1>5 DEF Chan!chan

(* Every step is one of the channel or is not seen by its users.           *)
LEMMA ChanStep ==
  ASSUME ChanInv, ChanInv', Next \/ QuietReset
  PROVE  Chan!Next \/ UNCHANGED Chan!chan
<1>0. TypeOK /\ TypeOK'
  BY DEF ChanInv
<1>1. ASSUME UNCHANGED <<cmds, replies, mirror, remote>>
      PROVE  UNCHANGED Chan!chan
  BY <1>0, <1>1, RequestSteps, AnswerSteps DEF Chan!chan
<1>2. ASSUME NEW k, NEW r, rdcu_sync(k, r) PROVE UNCHANGED Chan!chan
  BY <1>1, <1>2 DEF rdcu_sync, link
<1>3. ASSUME NEW k, NEW a, NEW n, rdcu_sync_data(k, a, n)
      PROVE  UNCHANGED Chan!chan
  BY <1>1, <1>3 DEF rdcu_sync_data, link
<1>4. ASSUME NEW a \in WrRegs \cup Sram, NEW v \in Value, SetMirror(a, v)
      PROVE  Chan!Set
  <2>1. a \in Addr
    BY MemAssumption DEF Addr, Sram
  <2>2. UNCHANGED <<Requests, Answers, remote>>
    BY <1>0, <1>4, RequestSteps, AnswerSteps DEF SetMirror, link
  <2> QED
    BY <1>4, <2>1, <2>2 DEF SetMirror, Chan!Set, Chan!Addr, Addr
<1>5. CASE rdcu_rmap_sync_status \/ SyncDataGrab \/ SyncStatusReturn
             \/ RxEmpty \/ RxAllocFail \/ QuietReset
  BY <1>1, <1>5 DEF rdcu_rmap_sync_status, SyncDataGrab, SyncStatusReturn,
    RxEmpty, RxAllocFail, QuietReset, rdcu_rmap_reset_log, link
<1>6. CASE RemoteUpdate
  <2>1. UNCHANGED <<Requests, Answers, mirror>>
    BY <1>0, <1>6, RequestSteps, AnswerSteps DEF RemoteUpdate, link
  <2> QED
    BY <1>6, <2>1 DEF RemoteUpdate, Chan!Update, Chan!Next
<1>7. CASE Application
  BY <1>2, <1>3, <1>4, <1>5, <1>7 DEF Application, Chan!Next
<1>8. CASE LibStep
  BY <1>0, <1>5, <1>8, SubmitIsSubmit, TakenIsStore
     DEF LibStep, rdcu_process_rx, Chan!Next
<1>9. CASE Environment
  BY <1>0, <1>6, <1>9, TargetIsPerform, LossIsRefuse, TakenIsStore,
     DamageIsStutter DEF Environment, Chan!Next
<1> QED
  BY <1>5, <1>7, <1>8, <1>9 DEF Next

(* The steps of the specification with the history variable.               *)
LEMMA HistorySteps ==
  [\/ Next /\ due' = NextDue
   \/ QuietReset /\ due' = NothingDue]_<<vars, due>> => [Next \/ QuietReset]_vars
OBVIOUS

(* It holds with the history variable and quiet resets, too.               *)
LEMMA HistoryChanInv == HistorySpec => []ChanInv
<1>1. HistoryInit => ChanInv
  BY TypeInit, LogInvInit DEF HistoryInit, ChanInv, CmdInv, Init
<1> QED
  BY <1>1, ChanInvStep, HistorySteps, PTL DEF HistorySpec

(* The transaction log and the rx loop of rdcu_rmap.c implement the        *)
(* channel of SyncChannel: whatever is lost, damaged, refused, repeated or *)
(* never sent, a reply is stored at the address of its own command and in  *)
(* the order of the commands, and nothing but that and the application     *)
(* changes the mirror.                                                     *)
THEOREM RefinesChannel == HistorySpec => ImplementsChannel
<1>1. HistoryInit => Chan!Init
  <2> SUFFICES ASSUME HistoryInit PROVE Chan!Init
    OBVIOUS
  <2>1. cmds = <<>> /\ replies = <<>>
    BY DEF HistoryInit, Init
  <2>2. Len(cmds) = 0 /\ Len(replies) = 0
    BY <2>1, EmptySeq
  <2>3. Requests = <<>> /\ Answers = <<>>
    BY <2>2 DEF Requests, Answers
  <2> QED
    BY <2>3 DEF HistoryInit, Init, Chan!Init, Chan!Addr, Addr
<1>2. ChanInv /\ ChanInv' /\ [Next \/ QuietReset]_vars => [Chan!Next]_Chan!chan
  <2>1. CASE UNCHANGED vars
    BY <2>1 DEF vars, link, Chan!chan, Requests, Answers
  <2> QED
    BY <2>1, ChanStep
<1> QED
  BY <1>1, <1>2, HistoryChanInv, HistorySteps, PTL
     DEF HistorySpec, ImplementsChannel, Chan!Spec
-----------------------------------------------------------------------------
(* "Not pending" means synchronised.                                       *)

(* What is on the link is about SRAM, or about one register in the         *)
(* direction that register is synchronised.                                *)
CmdShape(c) ==
  \/ c.addr < SramWords /\ c.addr + c.len <= SramWords
  \/ c.addr \in RdRegs /\ c.kind = "read" /\ c.len = 1
  \/ c.addr \in WrRegs /\ c.kind = "write" /\ c.len = 1
ReplyShape(r) ==
  \/ r.addr < SramWords /\ r.addr + Len(r.data) <= SramWords
  \/ r.addr \in RdRegs /\ Len(r.data) = 1
  \/ r.addr \in RdRegs /\ r.data = <<>> /\ r.form = "rejected"
  \/ r.addr \in WrRegs /\ r.data = <<>>
ShapeInv ==
  /\ call \in {"rx_data", "grab", "rx_submit", "tx"} => CmdShape(cmd)
  /\ \A i \in 1 .. Len(cmds) :
       CmdShape(cmds[i]) /\ (cmds[i].kind = "write" => Len(cmds[i].data) = cmds[i].len)
  /\ \A i \in 1 .. Len(replies) : ReplyShape(replies[i])

(* i is the position of the last packet about word a.                      *)
Last(q, a, i) ==
  /\ i \in 1 .. Len(q) /\ q[i].addr = a
  /\ \A j \in 1 .. Len(q) : q[j].addr = a => j <= i
None(q, a) == \A j \in 1 .. Len(q) : q[j].addr # a

(* What is due for a register is where it belongs, or the last packet      *)
(* about the register is bringing it there.                                *)
WriteOnItsWay(w) ==
  due[w] # NULL =>
    \/ None(cmds, w) /\ remote[w] = due[w]
    \/ \E i \in 1 .. Len(cmds) : Last(cmds, w, i) /\ cmds[i].data[1] = due[w]
ReadOnItsWay(r) ==
  due[r] # NULL =>
    \/ None(replies, r) /\ mirror[r] = due[r]
    \/ \E i \in 1 .. Len(replies) :
         /\ Last(replies, r, i) /\ replies[i].data[1] = due[r]
         /\ replies[i].form \in {"ok", "garbled"}
OnItsWay == /\ \A w \in WrRegs : WriteOnItsWay(w)
            /\ \A r \in RdRegs : ReadOnItsWay(r)

(* A slot that leaks stays in use: nothing is claimed after that.          *)
DueInv == NoSlotLeak => OnItsWay

-----------------------------------------------------------------------------
(* A step that moves no packet and begins no call.                         *)
LEMMA ShapeUnmoved ==
  ASSUME ShapeInv, UNCHANGED <<cmds, replies, cmd>>,
         call' \in {"rx_data", "grab", "rx_submit", "tx"} =>
           call \in {"rx_data", "grab", "rx_submit", "tx"}
  PROVE  ShapeInv'
BY DEF ShapeInv

(* A command that is prepared has the shape of its call.                   *)
LEMMA PrepareShape ==
  ASSUME ShapeInv, NEW k, NEW a, NEW n, Prepare(k, a, n), UNCHANGED link,
         CmdShape([kind |-> k, addr |-> a, len |-> n])
  PROVE  ShapeInv'
<1>1. UNCHANGED <<cmds, replies>>
  BY DEF link
<1>2. call' = "none" \/
        (cmd'.kind = k /\ cmd'.addr = a /\ cmd'.len = n)
  BY DEF Prepare, Return
<1>3. call' \in {"rx_data", "grab", "rx_submit", "tx"} => CmdShape(cmd')
  BY <1>2 DEF CmdShape
<1> QED
  BY <1>1, <1>3 DEF ShapeInv

(* The driver takes a reply or the link loses it.                          *)
LEMMA ReplyTakenShape ==
  ASSUME TypeOK, ShapeInv, replies # <<>>, replies' = Tail(replies),
         UNCHANGED <<cmds, cmd>>,
         call' \in {"rx_data", "grab", "rx_submit", "tx"} =>
           call \in {"rx_data", "grab", "rx_submit", "tx"}
  PROVE  ShapeInv'
<1>1. \A i \in 1 .. Len(replies') :
        i + 1 \in 1 .. Len(replies) /\ replies'[i] = replies[i + 1]
  BY QueueElements DEF TypeOK
<1> QED
  BY <1>1 DEF ShapeInv

(* A command that is handed over carries the words it was made for.        *)
LEMMA SubmitShape ==
  ASSUME TypeOK, ShapeInv, rdcu_submit_tx
  PROVE  ShapeInv'
<1> DEFINE c == [cmd EXCEPT !.data = IF cmd.kind = "write"
                   THEN WordsAt(mirror, cmd.addr, cmd.len) ELSE <<>>]
<1>1. replies' = replies /\ call' = "none" /\ call = "tx"
  BY DEF rdcu_submit_tx, Return
<1>2. /\ CmdShape(c) /\ (c.kind = "write" => Len(c.data) = c.len)
      /\ c \in Command
  <2>1. c.kind = cmd.kind /\ c.addr = cmd.addr /\ c.len = cmd.len
    BY DEF TypeOK, Command
  <2>2. CmdShape(cmd)
    BY <1>1 DEF ShapeInv
  <2>3. CmdShape(c)
    BY <2>1, <2>2 DEF CmdShape
  <2>4. c.kind = "write" => Len(c.data) = c.len
    BY <2>1, WordsCount DEF TypeOK, Command
  <2>5. WordsAt(mirror, cmd.addr, cmd.len) \in Seq(Value) /\ <<>> \in Seq(Value)
    BY WordsAreValues, EmptySeq DEF TypeOK, Command
  <2>6. c \in Command
    BY <2>5 DEF TypeOK, Command
  <2> QED
    BY <2>3, <2>4, <2>6
<1> HIDE DEF c
<1>3. CASE cmds' = cmds
  BY <1>1, <1>3 DEF ShapeInv
<1>4. CASE cmds' = Append(cmds, c)
  <2>1. \A i \in 1 .. Len(cmds') :
          (i \in 1 .. Len(cmds) /\ cmds'[i] = cmds[i]) \/ cmds'[i] = c
    BY <1>2, <1>4, QueueElements DEF TypeOK
  <2> QED
    BY <1>1, <1>2, <2>1 DEF ShapeInv
<1> QED
  BY <1>3, <1>4 DEF rdcu_submit_tx, c

(* The RDCU takes a command and may answer it.                             *)
LEMMA CommandTakenShape ==
  ASSUME TypeOK, ShapeInv, cmds # <<>>, cmds' = Tail(cmds),
         UNCHANGED <<call, cmd>>, NEW r \in Reply,
         replies' = replies \/ (ReplyShape(r) /\ replies' = Append(replies, r))
  PROVE  ShapeInv'
<1>1. \A i \in 1 .. Len(cmds') :
        i + 1 \in 1 .. Len(cmds) /\ cmds'[i] = cmds[i + 1]
  BY QueueElements DEF TypeOK
<1>2. \A i \in 1 .. Len(replies') :
        \/ i \in 1 .. Len(replies) /\ replies'[i] = replies[i]
        \/ replies'[i] = r /\ ReplyShape(r)
  BY QueueElements DEF TypeOK
<1> QED
  BY <1>1, <1>2 DEF ShapeInv

(* Every step of the link and of the RDCU.                                 *)
LEMMA EnvironmentShape ==
  ASSUME TypeOK, ShapeInv, Environment
  PROVE  ShapeInv'
<1>0. "ok" \in Form /\ "rejected" \in Form /\ <<>> \in Seq(Value)
      /\ Len(<<>>) = 0
  BY EmptySeq DEF Form
<1>1. cmds # <<>> =>
        /\ Head(cmds) \in Command /\ CmdShape(Head(cmds))
        /\ \A d \in Seq(Value), f \in Form : Answer(Head(cmds), f, d) \in Reply
  <2>1. cmds # <<>> => /\ 1 \in 1 .. Len(cmds) /\ Head(cmds) = cmds[1]
                       /\ cmds[1] \in Command
    BY QueueElements DEF TypeOK
  <2> QED
    BY <2>1, AnswerType DEF ShapeInv
<1>2. CASE TargetExecute
  <2> DEFINE c == Head(cmds)
  <2>0. cmds # <<>> /\ cmds' = Tail(cmds) /\ UNCHANGED <<call, cmd>>
    BY <1>2 DEF TargetExecute, lib
  <2>1. CASE c.kind = "write"
    <3>1. ReplyShape(Answer(c, "ok", <<>>))
      BY <1>0, <1>1, <2>0, <2>1, MemAssumption
         DEF ReplyShape, CmdShape, Answer, Command, Addr
    <3>2. replies' = Append(replies, Answer(c, "ok", <<>>))
      BY <1>2, <2>1 DEF TargetExecute
    <3> QED
      BY <1>0, <1>1, <2>0, <3>1, <3>2, CommandTakenShape
  <2>2. CASE c.kind = "read"
    <3> DEFINE d == WordsAt(remote, c.addr, c.len)
    <3>1. d \in Seq(Value) /\ Len(d) = c.len
      BY <1>1, <2>0, WordsAreValues, WordsCount DEF TypeOK, Command
    <3>2. replies' = Append(replies, Answer(c, "ok", d))
      BY <1>2, <2>2 DEF TargetExecute
    <3> HIDE DEF d
    <3>3. ReplyShape(Answer(c, "ok", d))
      BY <1>1, <2>0, <2>2, <3>1 DEF ReplyShape, CmdShape, Answer, Command
    <3> QED
      BY <1>0, <1>1, <2>0, <3>1, <3>2, <3>3, CommandTakenShape
  <2> QED
    BY <1>2, <2>1, <2>2 DEF TargetExecute
<1>3. CASE TargetReject
  <2>1. /\ cmds # <<>> /\ cmds' = Tail(cmds) /\ UNCHANGED <<call, cmd>>
        /\ replies' = Append(replies, Answer(Head(cmds), "rejected", <<>>))
    BY <1>3 DEF TargetReject, lib
  <2>2. ReplyShape(Answer(Head(cmds), "rejected", <<>>))
    BY <1>0, <1>1, <2>1, MemAssumption
       DEF ReplyShape, CmdShape, Answer, Command, Addr
  <2> QED
    BY <1>0, <1>1, <2>1, <2>2, CommandTakenShape
<1>4. CASE LoseCommand
  <2>1. /\ cmds # <<>> /\ cmds' = Tail(cmds) /\ UNCHANGED <<call, cmd, replies>>
    BY <1>4 DEF LoseCommand, lib
  <2> QED
    BY <1>0, <1>1, <2>1, CommandTakenShape
<1>5. CASE LoseReply
  BY <1>5, ReplyTakenShape DEF LoseReply, lib
<1>6. CASE DamageReply
  <2>1. PICK i \in 1 .. Len(replies), f \in Form :
          replies[i].form = "ok" /\ replies' = [replies EXCEPT ![i].form = f]
    BY <1>6 DEF DamageReply
  <2>2. /\ \A j \in 1 .. Len(replies) : replies[j] \in Reply
        /\ DOMAIN replies = 1 .. Len(replies)
        /\ Len(replies') = Len(replies)
    BY <2>1, ElementOfSeq, LenProperties DEF TypeOK
  <2>3. ASSUME NEW j \in 1 .. Len(replies) PROVE ReplyShape(replies'[j])
    <3>1. replies'[j] = IF j = i THEN [replies[j] EXCEPT !.form = f]
                                 ELSE replies[j]
      BY <2>1, <2>2
    <3>2. /\ replies'[j].addr = replies[j].addr
          /\ replies'[j].data = replies[j].data
          /\ replies[j].form = "rejected" => replies'[j].form = "rejected"
      BY <2>1, <2>2, <3>1 DEF Reply
    <3>3. ReplyShape(replies[j])
      BY DEF ShapeInv
    <3> QED
      BY <3>2, <3>3 DEF ReplyShape
  <2>4. UNCHANGED <<cmds, call, cmd>>
    BY <1>6 DEF DamageReply, lib
  <2> QED
    BY <2>2, <2>3, <2>4 DEF ShapeInv
<1>7. CASE RemoteUpdate
  BY <1>7, ShapeUnmoved DEF RemoteUpdate, lib, link
<1> QED
  BY <1>2, <1>3, <1>4, <1>5, <1>6, <1>7 DEF Environment

(* Every step.                                                             *)
LEMMA ShapeStep == TypeOK /\ ShapeInv /\ [Next \/ QuietReset]_vars => ShapeInv'
<1> SUFFICES ASSUME TypeOK, ShapeInv, [Next \/ QuietReset]_vars PROVE ShapeInv'
  OBVIOUS
<1>1. CASE Application
  <2>1. ASSUME NEW k, NEW r, rdcu_sync(k, r),
               CmdShape([kind |-> k, addr |-> r, len |-> 1])
        PROVE  ShapeInv'
    <3>1. CASE Prepare(k, r, 1)
      BY <2>1, <3>1, PrepareShape DEF rdcu_sync
    <3>2. CASE Return(-1)
      BY <2>1, <3>2 DEF rdcu_sync, Return, link, ShapeInv
    <3> QED
      BY <2>1, <3>1, <3>2 DEF rdcu_sync
  <2>2. ASSUME NEW k, NEW b \in Blocks, rdcu_sync_data(k, b[1], b[2])
        PROVE  ShapeInv'
    <3>1. b[1] < SramWords /\ b[1] + b[2] <= SramWords
      BY MemAssumption DEF Blocks, Sram
    <3>2. cmd'.addr = b[1] /\ cmd'.len = b[2]
      BY <2>2 DEF rdcu_sync_data, TypeOK, Command
    <3>3. CmdShape(cmd')
      BY <3>1, <3>2 DEF CmdShape
    <3> QED
      BY <2>2, <3>3 DEF rdcu_sync_data, link, ShapeInv
  <2>3. \A r \in RdRegs : CmdShape([kind |-> "read", addr |-> r, len |-> 1])
    BY DEF CmdShape
  <2>4. \A r \in WrRegs : CmdShape([kind |-> "write", addr |-> r, len |-> 1])
    BY DEF CmdShape
  <2> QED
    BY <1>1, <2>1, <2>2, <2>3, <2>4, ShapeUnmoved
       DEF Application, rdcu_rmap_sync_status, SetMirror, lib, link
<1>2. CASE rdcu_process_rx
  <2>1. call \in RxLoop /\ call' = AfterRx =>
          (call' \in {"rx_data", "grab", "rx_submit", "tx"} =>
             call \in {"rx_data", "grab", "rx_submit", "tx"})
    BY DEF AfterRx, RxLoop
  <2>2. CASE RxSkip \/ RxDropTransaction \/ RxAccept
    BY <2>1, <2>2, ReplyTakenShape DEF RxSkip, RxDropTransaction, RxAccept, lib
  <2>3. CASE RxEmpty \/ RxAllocFail
    BY <2>1, <2>3, ShapeUnmoved DEF RxEmpty, RxAllocFail, link
  <2> QED
    BY <1>2, <2>2, <2>3 DEF rdcu_process_rx
<1>3. CASE SyncDataGrab
  <2>1. CASE Prepare(cmd.kind, cmd.addr, cmd.len)
    <3>1. CmdShape([kind |-> cmd.kind, addr |-> cmd.addr, len |-> cmd.len])
      BY <1>3 DEF ShapeInv, CmdShape, SyncDataGrab
    <3> QED
      BY <1>3, <2>1, <3>1, PrepareShape DEF SyncDataGrab
  <2>2. CASE Return(1)
    BY <1>3, <2>2 DEF SyncDataGrab, Return, link, ShapeInv
  <2> QED
    BY <1>3, <2>1, <2>2 DEF SyncDataGrab
<1>4. CASE SyncStatusReturn
  BY <1>4 DEF SyncStatusReturn, Return, link, ShapeInv
<1>5. CASE QuietReset \/ UNCHANGED vars
  BY <1>5, ShapeUnmoved DEF QuietReset, rdcu_rmap_reset_log, vars, lib, link
<1> QED
  BY <1>1, <1>2, <1>3, <1>4, <1>5, SubmitShape, EnvironmentShape DEF Next, LibStep
-----------------------------------------------------------------------------
(* The last packet about a word, when the oldest leaves the queue and when *)
(* a new one enters it.                                                    *)
LEMMA LastOfTail ==
  ASSUME NEW S, NEW q \in Seq(S), q # <<>>, NEW a
  PROVE  /\ None(q, a) => None(Tail(q), a) /\ Head(q).addr # a
         /\ Last(q, a, 1) => None(Tail(q), a) /\ Head(q).addr = a
         /\ \A i \in 1 .. Len(q) : Last(q, a, i) /\ i # 1 =>
              /\ i - 1 \in 1 .. Len(Tail(q))
              /\ Last(Tail(q), a, i - 1)
              /\ Tail(q)[i - 1] = q[i]
<1>1. /\ Len(q) \in Nat /\ 1 \in 1 .. Len(q) /\ Head(q) = q[1]
      /\ Len(Tail(q)) = Len(q) - 1
      /\ \A i \in 1 .. Len(Tail(q)) :
           i + 1 \in 1 .. Len(q) /\ Tail(q)[i] = q[i + 1]
  BY QueueElements
<1>2. None(q, a) => None(Tail(q), a) /\ Head(q).addr # a
  BY <1>1 DEF None
<1>3. Last(q, a, 1) => None(Tail(q), a) /\ Head(q).addr = a
  BY <1>1 DEF None, Last
<1>4. ASSUME NEW i \in 1 .. Len(q), Last(q, a, i), i # 1
      PROVE  /\ i - 1 \in 1 .. Len(Tail(q))
             /\ Last(Tail(q), a, i - 1)
             /\ Tail(q)[i - 1] = q[i]
  <2>1. i - 1 \in 1 .. Len(Tail(q)) /\ (i - 1) + 1 = i
    BY <1>1, <1>4
  <2>2. Tail(q)[i - 1] = q[i]
    BY <1>1, <2>1
  <2>3. ASSUME NEW j \in 1 .. Len(Tail(q)), Tail(q)[j].addr = a
        PROVE  j <= i - 1
    <3>1. j + 1 <= i
      BY <1>1, <1>4, <2>3 DEF Last
    <3> QED
      BY <1>1, <2>1, <3>1
  <2> QED
    BY <1>4, <2>1, <2>2, <2>3 DEF Last
<1> QED
  BY <1>2, <1>3, <1>4

(* The packet that is appended is the last of its address.                 *)
LEMMA LastOfAppend ==
  ASSUME NEW S, NEW q \in Seq(S), NEW e \in S, NEW a
  PROVE  /\ Len(q) + 1 \in 1 .. Len(Append(q, e))
         /\ Append(q, e)[Len(q) + 1] = e
         /\ e.addr = a => Last(Append(q, e), a, Len(q) + 1)
         /\ e.addr # a /\ None(q, a) => None(Append(q, e), a)
         /\ \A i \in 1 .. Len(q) : e.addr # a /\ Last(q, a, i) =>
              /\ i \in 1 .. Len(Append(q, e))
              /\ Last(Append(q, e), a, i)
              /\ Append(q, e)[i] = q[i]
<1>1. /\ Len(q) \in Nat /\ Len(Append(q, e)) = Len(q) + 1
      /\ Append(q, e)[Len(q) + 1] = e
      /\ \A i \in 1 .. Len(q) : Append(q, e)[i] = q[i]
  BY QueueElements
<1>2. \A j \in 1 .. Len(Append(q, e)) : j \in 1 .. Len(q) \/ j = Len(q) + 1
  BY <1>1
<1>3. /\ Len(q) + 1 \in 1 .. Len(Append(q, e))
      /\ \A i \in 1 .. Len(q) : i \in 1 .. Len(Append(q, e)) /\ i <= Len(q) + 1
      /\ Len(q) + 1 <= Len(q) + 1
  BY <1>1
<1>4. e.addr = a => Last(Append(q, e), a, Len(q) + 1)
  BY <1>1, <1>2, <1>3 DEF Last
<1>5. e.addr # a /\ None(q, a) => None(Append(q, e), a)
  BY <1>1, <1>2 DEF None
<1>6. ASSUME NEW i \in 1 .. Len(q), e.addr # a, Last(q, a, i)
      PROVE  Last(Append(q, e), a, i)
  BY <1>1, <1>2, <1>3, <1>6 DEF Last
<1> QED
  BY <1>1, <1>3, <1>4, <1>5, <1>6

(* The same as facts about the next queue p.                               *)
MovedUp(q, p, a) ==
  /\ None(q, a) => None(p, a)
  /\ Last(q, a, 1) => None(p, a)
  /\ Head(q).addr # a => ~Last(q, a, 1)
  /\ \A i \in 1 .. Len(q) : Last(q, a, i) /\ i # 1 =>
       i - 1 \in 1 .. Len(p) /\ Last(p, a, i - 1) /\ p[i - 1] = q[i]
Extended(q, p, e, a) ==
  /\ p[Len(q) + 1] = e
  /\ e.addr = a => Len(q) + 1 \in 1 .. Len(p) /\ Last(p, a, Len(q) + 1)
  /\ e.addr # a /\ None(q, a) => None(p, a)
  /\ e.addr # a => \A i \in 1 .. Len(q) : Last(q, a, i) =>
       i \in 1 .. Len(p) /\ Last(p, a, i) /\ p[i] = q[i]

(* Taking the head moves the others up.                                    *)
LEMMA TailMovesUp ==
  ASSUME NEW S, NEW q \in Seq(S), q # <<>>, NEW a
  PROVE  MovedUp(q, Tail(q), a)
BY LastOfTail DEF MovedUp

(* Appending leaves the others in place.                                   *)
LEMMA AppendExtends ==
  ASSUME NEW S, NEW q \in Seq(S), NEW e \in S, NEW a
  PROVE  Extended(q, Append(q, e), e, a)
BY LastOfAppend DEF Extended

(* A command covers a register only if it is about it.                     *)
LEMMA CoversOne ==
  ASSUME NEW c \in Command, CmdShape(c), NEW a \in RdRegs \cup WrRegs
  PROVE  /\ Covers(c, a) <=> c.addr = a
         /\ c.addr = a => /\ a \in RdRegs => c.kind = "read"
                          /\ a \in WrRegs => c.kind = "write"
                          /\ c.len = 1
<1>1. a \in Nat /\ a >= SramWords /\ SramWords \in Nat /\ a \in Addr
      /\ (a \in RdRegs => a \notin WrRegs)
  BY MemAssumption DEF Addr
<1>2. c.addr \in Nat /\ c.len \in Nat
  BY DEF Command, Addr
<1>3. c.addr = a => /\ a \in RdRegs => c.kind = "read"
                    /\ a \in WrRegs => c.kind = "write"
                    /\ c.len = 1
  BY <1>1, <1>2 DEF CmdShape
<1>4. Covers(c, a) <=> c.addr = a
  BY <1>1, <1>2 DEF CmdShape, Covers
<1> QED
  BY <1>3, <1>4

(* Nothing becomes due as long as no command moves and none is damaged.    *)
LEMMA DueKept ==
  ASSUME TypeOK, TypeOK', due' = NextDue, cmds' = cmds,
         replies' = replies \/ Len(replies') # Len(replies),
         NEW a \in RdRegs \cup WrRegs
  PROVE  due'[a] = due[a]
<1>1. a \notin Damaged
  BY DEF Damaged
<1>2. ~Submitted /\ ~Performed /\ ~Refused
  BY LenProperties DEF Submitted, Performed, Refused, TypeOK
<1> QED
  BY <1>1, <1>2 DEF NextDue

(* A step that moves no packet and no word that is due.                    *)
LEMMA WayUnmoved ==
  ASSUME OnItsWay, UNCHANGED <<cmds, replies>>,
         \A w \in WrRegs : remote'[w] = remote[w] /\ due'[w] = due[w],
         \A r \in RdRegs : mirror'[r] = mirror[r] /\ due'[r] = due[r]
  PROVE  OnItsWay'
<1>1. \A w \in WrRegs : WriteOnItsWay(w)'
  BY DEF OnItsWay, WriteOnItsWay
<1>2. \A r \in RdRegs : ReadOnItsWay(r)'
  BY DEF OnItsWay, ReadOnItsWay
<1> QED
  BY <1>1, <1>2 DEF OnItsWay

(* A submitted write carries what is due from then on.                     *)
LEMMA SubmitWay ==
  ASSUME TypeOK, TypeOK', ShapeInv, OnItsWay, due' = NextDue, rdcu_submit_tx
  PROVE  OnItsWay'
<1> DEFINE c == [cmd EXCEPT !.data = IF cmd.kind = "write"
                   THEN WordsAt(mirror, cmd.addr, cmd.len) ELSE <<>>]
<1>0. UNCHANGED <<replies, mirror, remote>> /\ call = "tx"
  BY DEF rdcu_submit_tx
<1>1. CASE cmds' = cmds
  BY <1>0, <1>1, WayUnmoved, DueKept
<1>2. CASE cmds' = Append(cmds, c)
  <2>1. cmd \in Command /\ CmdShape(cmd) /\ cmds \in Seq(Command)
    BY <1>0 DEF TypeOK, ShapeInv
  <2>2. c \in Command /\ c.addr = cmd.addr
    <3>1. WordsAt(mirror, cmd.addr, cmd.len) \in Seq(Value) /\ <<>> \in Seq(Value)
      BY WordsAreValues, EmptySeq DEF TypeOK, Command
    <3> QED
      BY <2>1, <3>1 DEF Command
  <2>3. ASSUME cmd.kind = "write", cmd.len = 1
        PROVE  c.data[1] = mirror[cmd.addr]
    BY <2>1, <2>3 DEF WordsAt, Command, Addr
  <2> HIDE DEF c
  <2>4. Submitted /\ ~Performed /\ ~Refused
    BY <1>2, <2>1, <2>2, QueueElements DEF Submitted, Performed, Refused
  <2>5. Damaged = {}
    BY <1>0 DEF Damaged
  <2>6. \A a \in RdRegs \cup WrRegs :
          due'[a] = IF cmd.kind = "write" /\ cmd.addr = a THEN mirror[a] ELSE due[a]
    BY <2>1, <2>4, <2>5, CoversOne DEF NextDue
  <2>7. ASSUME NEW r \in RdRegs PROVE ReadOnItsWay(r)'
    <3>1. due'[r] = due[r]
      BY <2>1, <2>6, CoversOne
    <3> QED
      BY <1>0, <3>1 DEF OnItsWay, ReadOnItsWay
  <2>8. ASSUME NEW w \in WrRegs PROVE WriteOnItsWay(w)'
    <3>1. CASE cmd.addr = w
      <4>1. cmd.kind = "write" /\ cmd.len = 1
        BY <2>1, <3>1, CoversOne
      <4>2. due'[w] = c.data[1]
        BY <2>3, <2>6, <3>1, <4>1
      <4>3. /\ Len(cmds) + 1 \in 1 .. Len(cmds')
            /\ Last(cmds', w, Len(cmds) + 1)
            /\ cmds'[Len(cmds) + 1] = c
        BY <1>2, <2>1, <2>2, <3>1, LastOfAppend
      <4> QED
        BY <4>2, <4>3 DEF WriteOnItsWay
    <3>2. CASE cmd.addr # w
      <4>1. due'[w] = due[w]
        BY <2>6, <3>2
      <4>2. /\ None(cmds, w) => None(cmds', w)
            /\ \A i \in 1 .. Len(cmds) : Last(cmds, w, i) =>
                 /\ i \in 1 .. Len(cmds') /\ Last(cmds', w, i)
                 /\ cmds'[i] = cmds[i]
        BY <1>2, <2>1, <2>2, <3>2, LastOfAppend
      <4>3. WriteOnItsWay(w)
        BY DEF OnItsWay
      <4> QED
        BY <1>0, <4>1, <4>2, <4>3 DEF WriteOnItsWay
    <3> QED
      BY <3>1, <3>2
  <2> QED
    BY <2>7, <2>8 DEF OnItsWay
<1> QED
  BY <1>1, <1>2 DEF rdcu_submit_tx

(* What is due for other registers than the one the oldest command is      *)
(* about stays on its way when that command is answered.                   *)
LEMMA OthersStayOnTheirWay ==
  ASSUME TypeOK, OnItsWay, cmds # <<>>, cmds' = Tail(cmds),
         NEW e \in Reply, e.addr = Head(cmds).addr,
         replies' = Append(replies, e), mirror' = mirror
  PROVE  /\ \A r \in RdRegs : r # Head(cmds).addr /\ due'[r] = due[r] =>
              ReadOnItsWay(r)'
         /\ \A w \in WrRegs : w # Head(cmds).addr /\ due'[w] = due[w]
                                /\ remote'[w] = remote[w] => WriteOnItsWay(w)'
<1>0. cmds \in Seq(Command) /\ replies \in Seq(Reply)
  BY DEF TypeOK
<1>1. ASSUME NEW r \in RdRegs, r # Head(cmds).addr, due'[r] = due[r]
      PROVE  ReadOnItsWay(r)'
  <2>1. Extended(replies, replies', e, r) /\ e.addr # r
    BY <1>0, <1>1, AppendExtends
  <2>2. ReadOnItsWay(r)
    BY DEF OnItsWay
  <2> QED
    BY <1>1, <2>1, <2>2 DEF ReadOnItsWay, Extended
<1>2. ASSUME NEW w \in WrRegs, w # Head(cmds).addr, due'[w] = due[w],
             remote'[w] = remote[w]
      PROVE  WriteOnItsWay(w)'
  <2>1. MovedUp(cmds, cmds', w)
    BY <1>0, TailMovesUp
  <2>2. WriteOnItsWay(w)
    BY DEF OnItsWay
  <2> QED
    BY <1>2, <2>1, <2>2 DEF WriteOnItsWay, MovedUp
<1> QED
  BY <1>1, <1>2

(* A command that is performed delivers a write or sends what was read.    *)
LEMMA ExecuteWay ==
  ASSUME TypeOK, TypeOK', ShapeInv, OnItsWay, due' = NextDue, TargetExecute
  PROVE  OnItsWay'
<1> DEFINE c == Head(cmds)
<1>0. /\ cmds \in Seq(Command) /\ replies \in Seq(Reply)
      /\ cmds # <<>> /\ cmds' = Tail(cmds) /\ mirror' = mirror
      /\ remote \in [Addr -> Value]
  BY DEF TypeOK, TargetExecute
<1>1. /\ c = cmds[1] /\ c \in Command /\ CmdShape(c)
      /\ c.kind = "write" => Len(c.data) = c.len
  BY <1>0, QueueElements DEF ShapeInv
<1>2. PICK e \in Reply :
        /\ replies' = Append(replies, e) /\ e.addr = c.addr /\ e.form = "ok"
        /\ c.kind = "write" => remote' = Stored(remote, c.addr, c.data)
        /\ c.kind = "read" => /\ remote' = remote
                              /\ e.data = WordsAt(remote, c.addr, c.len)
  <2>0. "ok" \in Form /\ <<>> \in Seq(Value)
        /\ WordsAt(remote, c.addr, c.len) \in Seq(Value)
    BY <1>1, EmptySeq, WordsAreValues DEF Form, TypeOK, Command
  <2>1. /\ Answer(c, "ok", <<>>) \in Reply
        /\ Answer(c, "ok", WordsAt(remote, c.addr, c.len)) \in Reply
    BY <1>1, <2>0, AnswerType
  <2>2. CASE c.kind = "write"
    BY <2>1, <2>2 DEF TargetExecute, Answer
  <2>3. CASE c.kind = "read"
    BY <2>1, <2>3 DEF TargetExecute, Answer
  <2> QED
    BY <2>2, <2>3 DEF TargetExecute
<1>3. /\ Len(cmds) \in Nat /\ Len(cmds') = Len(cmds) - 1
      /\ Len(replies) \in Nat /\ Len(replies') = Len(replies) + 1
      /\ replies'[Len(replies) + 1] = e
  BY <1>0, <1>2, QueueElements
<1>4. ~Submitted /\ Performed /\ ~Refused /\ Damaged = {}
  BY <1>2, <1>3 DEF Submitted, Performed, Refused, Damaged
<1>5. \A a \in RdRegs \cup WrRegs :
        due'[a] = IF c.kind = "read" /\ c.addr = a THEN remote[a] ELSE due[a]
  BY <1>1, <1>4, CoversOne DEF NextDue
<1> HIDE DEF c
<1>a. /\ \A r \in RdRegs : r # c.addr /\ due'[r] = due[r] => ReadOnItsWay(r)'
      /\ \A w \in WrRegs : w # c.addr /\ due'[w] = due[w]
                             /\ remote'[w] = remote[w] => WriteOnItsWay(w)'
  BY <1>0, <1>2, OthersStayOnTheirWay DEF c
<1>6. ASSUME NEW r \in RdRegs PROVE ReadOnItsWay(r)'
  <2>1. CASE c.addr = r
    <3>1. c.kind = "read" /\ c.len = 1
      BY <1>1, <2>1, CoversOne
    <3>2. e.data[1] = remote[r]
      BY <1>1, <1>2, <2>1, <3>1 DEF WordsAt, Command, Addr
    <3>3. due'[r] = e.data[1]
      BY <1>5, <2>1, <3>1, <3>2
    <3>4. Len(replies) + 1 \in 1 .. Len(replies') /\ Last(replies', r, Len(replies) + 1)
      BY <1>0, <1>2, <2>1, LastOfAppend
    <3> QED
      BY <1>2, <1>3, <3>3, <3>4 DEF ReadOnItsWay
  <2>2. CASE c.addr # r
    BY <1>5, <1>a, <2>2
  <2> QED
    BY <2>1, <2>2
<1>7. ASSUME NEW w \in WrRegs PROVE WriteOnItsWay(w)'
  <2>0. due'[w] = due[w]
    BY <1>1, <1>5, CoversOne
  <2>1. CASE c.addr = w
    <3>1. c.kind = "write" /\ c.len = 1 /\ w \in Addr /\ Len(c.data) = 1
      <4>1. w \in Addr
        BY MemAssumption DEF Addr
      <4>2. c.kind = "write" /\ c.len = 1
        BY <1>1, <2>1, CoversOne
      <4> QED
        BY <1>1, <4>1, <4>2
    <3>0. MovedUp(cmds, cmds', w)
      BY <1>0, TailMovesUp
    <3>2. remote'[w] = c.data[1]
      BY <1>2, <2>1, <3>1 DEF Stored, Addr
    <3>3. ASSUME due[w] # NULL, Last(cmds, w, 1)
          PROVE  WriteOnItsWay(w)'
      <4>1. None(cmds', w)
        BY <3>0, <3>3 DEF MovedUp
      <4>2. cmds[1].data[1] = due[w]
        BY <3>3 DEF OnItsWay, WriteOnItsWay, Last, None
      <4> QED
        BY <1>1, <2>0, <3>2, <4>1, <4>2 DEF WriteOnItsWay
    <3>4. ASSUME NEW i \in 1 .. Len(cmds), Last(cmds, w, i), i # 1,
                 cmds[i].data[1] = due[w]
          PROVE  WriteOnItsWay(w)'
      <4>1. /\ i - 1 \in 1 .. Len(cmds') /\ Last(cmds', w, i - 1)
            /\ cmds'[i - 1] = cmds[i]
        BY <3>0, <3>4 DEF MovedUp
      <4> QED
        BY <2>0, <3>4, <4>1 DEF WriteOnItsWay
    <3>5. 1 \in 1 .. Len(cmds) /\ ~None(cmds, w)
      BY <1>0, <1>1, <2>1, QueueElements DEF None
    <3> QED
      BY <2>0, <3>3, <3>4, <3>5 DEF OnItsWay, WriteOnItsWay
  <2>2. CASE c.addr # w
    <3>1. remote'[w] = remote[w]
      <4>1. w \in Addr /\ w \in Nat /\ w >= SramWords /\ SramWords \in Nat
        BY MemAssumption DEF Addr
      <4>2. CASE c.kind = "read"
        BY <1>2, <4>2
      <4>3. CASE c.kind = "write"
        <5>1. /\ c.addr \in Nat /\ Len(c.data) = c.len /\ c.len \in Nat
              /\ ~(c.addr <= w /\ w < c.addr + c.len)
          BY <1>1, <2>2, <4>1, <4>3, CoversOne DEF Command, Addr, Covers
        <5> QED
          BY <1>2, <4>1, <4>3, <5>1 DEF Stored
      <4> QED
        BY <1>1, <4>2, <4>3 DEF Command, Kind
    <3> QED
      BY <1>a, <2>0, <2>2, <3>1
  <2> QED
    BY <2>1, <2>2
<1> QED
  BY <1>6, <1>7 DEF OnItsWay

(* Nothing is due for a register after a command about it was refused.     *)
LEMMA RejectWay ==
  ASSUME TypeOK, TypeOK', ShapeInv, OnItsWay, due' = NextDue, TargetReject
  PROVE  OnItsWay'
<1> DEFINE c == Head(cmds)
           e == Answer(c, "rejected", <<>>)
<1>0. /\ cmds \in Seq(Command) /\ replies \in Seq(Reply)
      /\ cmds # <<>> /\ cmds' = Tail(cmds)
      /\ UNCHANGED <<mirror, remote>> /\ replies' = Append(replies, e)
  BY DEF TypeOK, TargetReject
<1>1. c \in Command /\ CmdShape(c)
  BY <1>0, QueueElements DEF ShapeInv
<1>2. e \in Reply /\ e.addr = c.addr /\ e.form = "rejected"
  <2>1. "rejected" \in Form /\ <<>> \in Seq(Value)
    BY EmptySeq DEF Form
  <2> QED
    BY <1>1, <2>1, AnswerType DEF Answer
<1> HIDE DEF e
<1>3. /\ Len(cmds) \in Nat /\ Len(cmds') = Len(cmds) - 1
      /\ Len(replies) \in Nat /\ Len(replies') = Len(replies) + 1
      /\ replies'[Len(replies) + 1] = e
  BY <1>0, <1>2, QueueElements
<1>4. ~Submitted /\ Refused /\ Damaged = {}
  BY <1>2, <1>3 DEF Submitted, Performed, Refused, Damaged
<1>5. \A a \in RdRegs \cup WrRegs :
        due'[a] = IF c.addr = a THEN NULL ELSE due[a]
  BY <1>1, <1>4, CoversOne DEF NextDue, Refused
<1>6. /\ \A r \in RdRegs : r # c.addr /\ due'[r] = due[r] => ReadOnItsWay(r)'
      /\ \A w \in WrRegs : w # c.addr /\ due'[w] = due[w]
                             /\ remote'[w] = remote[w] => WriteOnItsWay(w)'
  BY <1>0, <1>2, OthersStayOnTheirWay
<1> HIDE DEF c
<1>7. ASSUME NEW r \in RdRegs PROVE ReadOnItsWay(r)'
  BY <1>5, <1>6 DEF ReadOnItsWay
<1>8. ASSUME NEW w \in WrRegs PROVE WriteOnItsWay(w)'
  BY <1>0, <1>5, <1>6 DEF WriteOnItsWay
<1> QED
  BY <1>7, <1>8 DEF OnItsWay

(* Nothing is due for a register after an answer about it was damaged; an  *)
(* answer that is no packet any more will be skipped.                      *)
LEMMA DamageWay ==
  ASSUME TypeOK, TypeOK', OnItsWay, due' = NextDue, DamageReply
  PROVE  OnItsWay'
<1>1. PICK i \in 1 .. Len(replies), f \in Form :
        /\ replies[i].form = "ok" /\ f \in {"bad_len", "bad_crc", "garbled"}
        /\ replies' = [replies EXCEPT ![i].form = f]
  BY DEF DamageReply
<1>2. UNCHANGED <<cmds, mirror, remote>>
  BY DEF DamageReply
<1>3. /\ \A j \in 1 .. Len(replies) : replies[j] \in Reply
      /\ DOMAIN replies = 1 .. Len(replies)
      /\ Len(replies') = Len(replies) /\ Len(replies) \in Nat
      /\ Len(cmds) \in Nat
  BY <1>1, ElementOfSeq, LenProperties DEF TypeOK
<1>4. \A j \in 1 .. Len(replies) :
        replies'[j] = IF j = i THEN [replies[j] EXCEPT !.form = f] ELSE replies[j]
  BY <1>1, <1>3
<1>5. \A j \in 1 .. Len(replies) :
        /\ replies'[j].addr = replies[j].addr /\ replies'[j].data = replies[j].data
        /\ replies'[j].form = IF j = i THEN f ELSE replies[j].form
  BY <1>3, <1>4 DEF Reply
<1>6. ~Submitted /\ ~Performed /\ ~Refused
  BY <1>2, <1>3 DEF Submitted, Performed, Refused
<1>7. \A a \in RdRegs \cup WrRegs : due'[a] = IF a \in Damaged THEN NULL ELSE due[a]
  BY <1>6 DEF NextDue
<1>8. f \in {"bad_len", "bad_crc"} => replies[i].addr \in Damaged
  BY <1>1, <1>3, <1>5 DEF Damaged
<1>9. \A a : /\ None(replies, a) => None(replies', a)
             /\ \A j \in 1 .. Len(replies) :
                  Last(replies, a, j) => Last(replies', a, j)
  BY <1>3, <1>5 DEF None, Last
<1>10. ASSUME NEW r \in RdRegs PROVE ReadOnItsWay(r)'
  <2>1. SUFFICES ASSUME due'[r] # NULL
                 PROVE  \/ None(replies', r) /\ mirror'[r] = due'[r]
                        \/ \E j \in 1 .. Len(replies') :
                             /\ Last(replies', r, j) /\ replies'[j].data[1] = due'[r]
                             /\ replies'[j].form \in {"ok", "garbled"}
    BY DEF ReadOnItsWay
  <2>2. due'[r] = due[r] /\ r \notin Damaged
    BY <1>7, <2>1
  <2>3. CASE None(replies, r) /\ mirror[r] = due[r]
    BY <1>2, <1>9, <2>2, <2>3
  <2>4. ASSUME NEW j \in 1 .. Len(replies), Last(replies, r, j),
               replies[j].data[1] = due[r], replies[j].form \in {"ok", "garbled"}
        PROVE  /\ j \in 1 .. Len(replies') /\ Last(replies', r, j)
               /\ replies'[j].data[1] = due'[r]
               /\ replies'[j].form \in {"ok", "garbled"}
    <3>1. j = i => f = "garbled"
      BY <1>1, <1>8, <2>2, <2>4 DEF Last
    <3>2. replies'[j].form \in {"ok", "garbled"}
      BY <1>5, <2>4, <3>1
    <3> QED
      BY <1>3, <1>5, <1>9, <2>2, <2>4, <3>2
  <2> QED
    BY <2>1, <2>2, <2>3, <2>4 DEF OnItsWay, ReadOnItsWay
<1>11. ASSUME NEW w \in WrRegs PROVE WriteOnItsWay(w)'
  BY <1>2, <1>7 DEF OnItsWay, WriteOnItsWay
<1> QED
  BY <1>10, <1>11 DEF OnItsWay

(* A reply that is taken delivers what was read, unless a later one will.  *)
LEMMA TakenWay ==
  ASSUME TypeOK, TypeOK', LogInv, ShapeInv, OnItsWay, due' = NextDue,
         RxDropTransaction \/ RxAccept
  PROVE  OnItsWay'
<1> DEFINE p == Head(replies)
<1>0. /\ replies \in Seq(Reply) /\ replies # <<>> /\ replies' = Tail(replies)
      /\ UNCHANGED <<cmds, remote>>
  BY DEF TypeOK, RxDropTransaction, RxAccept
<1>1. /\ p = replies[1] /\ 1 \in 1 .. Len(replies) /\ p \in Reply /\ ReplyShape(p)
      /\ Len(replies') # Len(replies)
  <2>1. /\ p = replies[1] /\ 1 \in 1 .. Len(replies) /\ p \in Reply
        /\ Len(replies') = Len(replies) - 1 /\ Len(replies) \in Nat
    BY <1>0, QueueElements
  <2> QED
    BY <2>1 DEF ShapeInv
<1>2. \A a \in RdRegs \cup WrRegs : due'[a] = due[a]
  BY <1>0, <1>1, DueKept
<1>3. trans_log_get_addr(p.tid) = p.addr
  BY <1>1 DEF LogInv, AllHoldSlots, HoldsSlot, trans_log_get_addr
<1>4. \/ mirror' = mirror /\ p.form \in {"bad_len", "bad_crc"}
      \/ mirror' = Stored(mirror, p.addr, p.data) /\ p.form \in {"ok", "rejected"}
  BY <1>3 DEF RxDropTransaction, RxAccept
<1> HIDE DEF p
<1>5. ASSUME NEW w \in WrRegs PROVE WriteOnItsWay(w)'
  BY <1>0, <1>2 DEF OnItsWay, WriteOnItsWay
<1>6. ASSUME NEW r \in RdRegs PROVE ReadOnItsWay(r)'
  <2>0. r \in Addr /\ r \in Nat /\ r >= SramWords /\ SramWords \in Nat
    BY MemAssumption DEF Addr
  <2>1. MovedUp(replies, replies', r)
    BY <1>0, TailMovesUp
  <2>2. due'[r] = due[r]
    BY <1>2
  <2>3. CASE None(replies, r) /\ mirror[r] = due[r]
    <3>1. p.addr # r
      BY <1>1, <2>3 DEF None
    <3>2. p.addr \in Nat /\ Len(p.data) \in Nat
      BY <1>1, LenProperties DEF Reply, Addr
    <3>3. p.data = <<>> => Len(p.data) = 0
      BY EmptySeq
    <3>4. p.addr + Len(p.data) <= SramWords \/ Len(p.data) = 0 \/ Len(p.data) = 1
      BY <1>1, <3>3 DEF ReplyShape
    <3>a. ~(p.addr <= r /\ r < p.addr + Len(p.data))
      <4>1. \A a, n \in Nat : a # r /\ (a + n <= SramWords \/ n = 0 \/ n = 1) =>
                               ~(a <= r /\ r < a + n)
        BY <2>0
      <4> QED
        BY <3>1, <3>2, <3>4, <4>1
    <3>5. mirror'[r] = mirror[r]
      BY <1>4, <2>0, <3>a DEF Stored
    <3> QED
      BY <2>1, <2>2, <2>3, <3>5 DEF ReadOnItsWay, MovedUp
  <2>4. ASSUME Last(replies, r, 1), replies[1].data[1] = due[r],
               replies[1].form \in {"ok", "garbled"}
        PROVE  ReadOnItsWay(r)'
    <3>1. None(replies', r)
      BY <2>1, <2>4 DEF MovedUp
    <3>2. p.addr = r /\ p.form = "ok"
      BY <1>1, <1>4, <2>4 DEF Last
    <3>3. Len(p.data) = 1
      BY <1>1, <2>0, <3>2, MemAssumption DEF ReplyShape
    <3>4. mirror'[r] = p.data[1]
      BY <1>4, <2>0, <3>2, <3>3 DEF Stored
    <3> QED
      BY <1>1, <2>2, <2>4, <3>1, <3>4 DEF ReadOnItsWay
  <2>5. ASSUME NEW i \in 1 .. Len(replies), Last(replies, r, i), i # 1,
               replies[i].data[1] = due[r], replies[i].form \in {"ok", "garbled"}
        PROVE  ReadOnItsWay(r)'
    <3>1. /\ i - 1 \in 1 .. Len(replies') /\ Last(replies', r, i - 1)
          /\ replies'[i - 1] = replies[i]
      BY <2>1, <2>5 DEF MovedUp
    <3> QED
      BY <2>2, <2>5, <3>1 DEF ReadOnItsWay
  <2>6. CASE due[r] = NULL
    BY <2>2, <2>6 DEF ReadOnItsWay
  <2> QED
    BY <2>3, <2>4, <2>5, <2>6 DEF OnItsWay, ReadOnItsWay
<1> QED
  BY <1>5, <1>6 DEF OnItsWay

(* Every step of the library and its environment.                          *)
LEMMA NextWay ==
  ASSUME TypeOK, TypeOK', LogInv, ShapeInv, OnItsWay, NoSlotLeak',
         Next, due' = NextDue
  PROVE  OnItsWay'
<1>1. ASSUME UNCHANGED link,
             \A w \in WrRegs : remote'[w] = remote[w],
             \A r \in RdRegs : mirror'[r] = mirror[r]
      PROVE  OnItsWay'
  <2>1. UNCHANGED <<cmds, replies>>
    BY <1>1 DEF link
  <2>2. \A a \in RdRegs \cup WrRegs : due'[a] = due[a]
    BY <2>1, DueKept
  <2> QED
    BY <1>1, <2>1, <2>2, WayUnmoved
<1>2. CASE Application
  <2>1. ASSUME NEW a \in WrRegs \cup Sram, NEW v, SetMirror(a, v)
        PROVE  OnItsWay'
    <3>1. \A r \in RdRegs : r # a
      BY MemAssumption DEF Sram
    <3> QED
      BY <1>1, <2>1, <3>1 DEF SetMirror, TypeOK
  <2> QED
    BY <1>1, <1>2, <2>1 DEF Application, rdcu_sync, rdcu_sync_data,
       rdcu_rmap_sync_status
<1>3. CASE rdcu_process_rx
  BY <1>1, <1>3, LossLeaks, TakenWay
     DEF rdcu_process_rx, RxEmpty, RxAllocFail
<1>4. CASE SyncDataGrab \/ SyncStatusReturn
  BY <1>1, <1>4 DEF SyncDataGrab, SyncStatusReturn
<1>5. CASE RemoteUpdate
  <2>1. PICK r \in RdRegs, v \in Value : remote' = [remote EXCEPT ![r] = v]
    BY <1>5 DEF RemoteUpdate
  <2>2. \A w \in WrRegs : w # r
    BY MemAssumption
  <2> QED
    BY <1>1, <1>5, <2>1, <2>2 DEF RemoteUpdate, TypeOK
<1>6. CASE Environment
  BY <1>5, <1>6, ExecuteWay, RejectWay, DamageWay, LossLeaks DEF Environment
<1> QED
  BY <1>2, <1>3, <1>4, <1>6, SubmitWay DEF Next, LibStep

(* What holds between the steps of the library, its environment and the    *)
(* history.                                                                *)
SyncInv == TypeOK /\ PendingCountsSlots /\ LogInv /\ ShapeInv /\ DueInv

(* It holds initially.                                                     *)
LEMMA SyncInvInit == HistoryInit => SyncInv
<1> SUFFICES ASSUME HistoryInit PROVE SyncInv
  OBVIOUS
<1>1. TypeOK /\ PendingCountsSlots /\ LogInv
  BY TypeInit, PendingInit, LogInvInit DEF HistoryInit
<1>2. Len(cmds) = 0 /\ Len(replies) = 0 /\ call = "none"
  BY EmptySeq DEF HistoryInit, Init
<1>3. ShapeInv
  BY <1>2 DEF ShapeInv
<1>4. RdRegs \subseteq Addr /\ WrRegs \subseteq Addr
  BY MemAssumption DEF Addr
<1>5. OnItsWay
  BY <1>2, <1>4 DEF HistoryInit, Init, OnItsWay, WriteOnItsWay, ReadOnItsWay, None
<1> QED
  BY <1>1, <1>3, <1>5 DEF SyncInv, DueInv

(* Every step keeps it: one case for each way a step moves packets or      *)
(* words.                                                                  *)
LEMMA SyncInvStep ==
  ASSUME SyncInv,
         [\/ Next /\ due' = NextDue
          \/ QuietReset /\ due' = NothingDue]_<<vars, due>>
  PROVE  SyncInv'
<1>1. [AnyStep]_vars /\ [Next \/ QuietReset]_vars
  BY DEF AnyStep, QuietReset
<1>2. TypeOK' /\ PendingCountsSlots' /\ ShapeInv'
  BY <1>1, TypeStep, PendingStep, ShapeStep DEF SyncInv
<1>3. CASE Next /\ due' = NextDue
  <2>1. LogInv'
    BY <1>3, LogInvStep DEF SyncInv
  <2>2. NoSlotLeak' => OnItsWay'
    BY <1>2, <1>3, LeakStays, NextWay DEF SyncInv, DueInv
  <2> QED
    BY <1>2, <2>1, <2>2 DEF SyncInv, DueInv
<1>4. CASE QuietReset /\ due' = NothingDue
  <2>1. /\ cmds' = <<>> /\ replies' = <<>> /\ UNCHANGED <<mirror, remote, call>>
        /\ call = "none"
    BY <1>4 DEF QuietReset, rdcu_rmap_reset_log, link
  <2>2. Len(cmds') = 0 /\ Len(replies') = 0 /\ ~Submitting'
    BY <2>1, EmptySeq DEF Submitting
  <2>3. LogInv'
    BY <2>2 DEF LogInv, AllHoldSlots, NoSharedSlot
  <2>4. /\ \A r \in RdRegs : due'[r] = mirror'[r]
        /\ \A w \in WrRegs : due'[w] = remote'[w]
    BY <1>4, <2>1, MemAssumption DEF NothingDue
  <2>5. OnItsWay'
    BY <2>2, <2>4 DEF OnItsWay, WriteOnItsWay, ReadOnItsWay, None
  <2> QED
    BY <1>2, <2>3, <2>5 DEF SyncInv, DueInv
<1>5. CASE UNCHANGED <<vars, due>>
  BY <1>5 DEF SyncInv, TypeOK, PendingCountsSlots, LogInv, AllHoldSlots,
     NoSharedSlot, HoldsSlot, Submitting, ShapeInv, DueInv, NoSlotLeak, InFlight,
     OnItsWay, WriteOnItsWay, ReadOnItsWay, vars, lib, log, link
<1> QED
  BY <1>3, <1>4, <1>5

(* When nothing is on the link, what is due is where it belongs.           *)
LEMMA NotPending == SyncInv => SyncComplete
<1> SUFFICES ASSUME SyncInv, pending = 0 PROVE
      /\ \A r \in RdRegs : due[r] # NULL => mirror[r] = due[r]
      /\ \A w \in WrRegs : due[w] # NULL => remote[w] = due[w]
  BY DEF SyncComplete
<1>1. NoSlotLeak /\ Len(cmds) = 0 /\ Len(replies) = 0
  BY QuietLink DEF SyncInv
<1>2. OnItsWay
  BY <1>1 DEF SyncInv, DueInv
<1> QED
  BY <1>1, <1>2 DEF OnItsWay, WriteOnItsWay, ReadOnItsWay

(* "Not pending" means synchronised: when the counter rdcu_rmap_sync_status *)
(* returns is zero, every register that was read holds what the RDCU sent  *)
(* last and every register that was written has arrived, for every size of *)
(* the log, every set of registers and every combination of faults.        *)
THEOREM SyncCorrect == HistorySpec => []SyncComplete
<1>1. SyncInv /\ [\/ Next /\ due' = NextDue
                  \/ QuietReset /\ due' = NothingDue]_<<vars, due>> => SyncInv'
  BY SyncInvStep
<1> QED
  BY <1>1, SyncInvInit, NotPending, PTL DEF HistorySpec
=============================================================================
