----------------------------- MODULE MmuProofs -----------------------------
(***************************************************************************)
(* Proofs about MmuSystem, for every number of clients, frames, blocks and *)
(* pages, whichever clients may die or wake up early.  First the part that *)
(* does not look into memory: types, the locker, the sockets and the       *)
(* messages on them (Control).  Then the part that does: the tables, the   *)
(* list of MMU calls, the mappings and the contents of frames and blocks   *)
(* (Data).  Together they make SysIInv an invariant, and so each of the    *)
(* properties that follow from it.                                         *)
(***************************************************************************)
EXTENDS MmuSystem, PagerProofs, SequenceTheorems

-----------------------------------------------------------------------------
(***************************************************************************)
(* The inductive invariant.  The tables can be in any state of the pager   *)
(* that owns its frames and blocks; what is added says where the thread    *)
(* that holds `locker' is in its list of MMU calls, which messages of the  *)
(* pager are on the sockets then, and what the pages of the fault may look *)
(* like in the clients and in memory meanwhile.                            *)
(***************************************************************************)

Prots == {"NONE", "READ", "RW"}
Indices == 0..(MaxPages - 1)

\* The messages that the pager sends, and the clients' answers to them.
PagerReplies == {"REMAP_REP", "CHPROT_REP"}

RequestMsg ==
  [type : Requests \ {"SYSLOG_REQ", "SEGV_REQ"}]
    \cup [type : {"SYSLOG_REQ", "SEGV_REQ"}, i : Indices]

ReplyMsg ==
  [type : {"CREATE_REP", "SEGV_REP", "EXIT_REP"}]
    \cup [type : {"EXTEND_REP"}, i : Indices \cup {NULL}]
    \cup [type : {"SYSLOG_REP"}, i : {NULL, Einval}]
    \cup [type : {"REMAP_REP"}, i : Indices, frame : Frames, prot : Prots]
    \cup [type : {"CHPROT_REP"}, i : Indices, prot : Prots]

Transfers == {"disk_write", "disk_read", "zero_fill"}
Fills == {"disk_read", "zero_fill"}

MmuCall ==
  [op : {"chprot", "nonresident"}, page : PageIds, prot : Prots]
    \cup [op : {"resident"}, page : PageIds, frame : Frames, prot : Prots]
    \cup [op : Transfers, page : PageIds, frame : Frames, block : Blocks]

-----------------------------------------------------------------------------
(* Sequences of messages *)

Has(s, types) == \E j \in DOMAIN s : s[j].type \in types
AtMostOne(s, types) ==
  \A j, k \in DOMAIN s : s[j].type \in types /\ s[k].type \in types => j = k

-----------------------------------------------------------------------------
(* Types, and what a thread of the MMU has in its hand *)

MessagesOK ==
  /\ toMmu \in [Pids -> Seq(RequestMsg)]
  /\ toCli \in [Pids -> Seq(ReplyMsg)]
  /\ calls \in Seq(MmuCall)
  /\ wanted \in [Pids -> Requests \cup {NULL}]
  /\ req \in [Pids -> RequestMsg \cup ReplyMsg \cup {NULL}]
  /\ \A p \in Pids :
       /\ thr[p] \in {"peeked", "lock"} =>
            req[p] \in RequestMsg /\ req[p].type \notin PagerMessages
       /\ thr[p] = "reply" =>
            req[p] \in ReplyMsg /\ req[p].type \notin PagerReplies

\* uvm_extend is called with room for one more page.
RoomToExtend ==
  \A p \in Pids :
    app[p] \in {"wait", "woken"} /\ wanted[p] = "EXTEND_REQ" => npages[p] < MaxPages

-----------------------------------------------------------------------------
(* The locker and the MMU calls of its holder *)

AtAnswer == {"awaiting", "answered", "stuck"}

\* A thread that sent a message for its call, or found the call's client dead,
\* still has that call at the head of its list.
LockerOK ==
  /\ locker \in Pids \cup {NoPid}
  /\ \A p \in Pids : locker = p <=> thr[p] \in Serving
  /\ locker = NoPid => calls = <<>>
  /\ \A p \in Pids : thr[p] \in AtAnswer =>
       calls # <<>> /\ Head(calls).op \in WaitingCalls

Loading(pg) == Pending(Fills, pg)
Evicting(pg) == Pending({"nonresident"}, pg)

\* The order of the calls of one fault.
Rank(call) ==
  CASE call.op = "chprot" -> 0
    [] call.op = "nonresident" -> 1
    [] call.op = "disk_write" -> 2
    [] call.op \in Fills -> 3
    [] call.op = "resident" -> 4

\* Some page is to be loaded into the frame where page pg is or was.
MakesRoom(pg) ==
  \E j \in DOMAIN calls :
    calls[j].op \in Fills /\ calls[j].frame = pages[pg].frame_number

\* What the tables say of the page of a call that is still to be made.
CallOK(call) ==
  LET pg == call.page IN
  /\ Listed(pg)
  /\ call.op = "chprot" /\ call.prot # "NONE" =>
       /\ call.prot = "RW" /\ pg[1] = locker
       /\ Len(calls) = 1
       /\ pages[pg].isvalid = 1 /\ pages[pg].dirty = 1
  /\ call.op = "nonresident" =>
       call.prot = "NONE" /\ pages[pg].isvalid = 0 /\ MakesRoom(pg)
  /\ call.op = "disk_write" =>
       /\ pages[pg].isvalid = 0 /\ MakesRoom(pg)
       /\ call.frame = pages[pg].frame_number
       /\ call.block = pages[pg].block_number
       /\ blocks[call.block].used = 1
  /\ call.op \in Fills =>
       /\ pages[pg].isvalid = 1 /\ pages[pg].dirty = 0
       /\ call.frame = pages[pg].frame_number
       /\ call.block = pages[pg].block_number
       /\ call.op = "disk_read" <=> blocks[call.block].used = 1
  /\ call.op = "resident" =>
       /\ call.prot = "READ" /\ pg[1] = locker
       /\ pages[pg].isvalid = 1 /\ pages[pg].dirty = 0
       /\ call.frame = pages[pg].frame_number

\* The calls are made in order of rank, one of each rank but the first.
CallsOK ==
  /\ \A j \in DOMAIN calls : CallOK(calls[j])
  /\ \A j, k \in DOMAIN calls : j < k =>
       \/ Rank(calls[j]) < Rank(calls[k])
       \/ calls[j].op = "chprot" /\ calls[k].op = "chprot"

-----------------------------------------------------------------------------
(* The messages of the pager *)

\* The pager has sent a message to q and its call is not over.
Sent(q) ==
  \E p \in Pids : thr[p] \in AtAnswer /\ Head(calls).page[1] = q

\* The call has taken effect in the client.
Effected(call) ==
  /\ pte[call.page].prot = call.prot
  /\ call.op = "resident" => pte[call.page].frame = call.frame

\* The assertions of mmu.c, with what the peeking thread has seen.
PeeksOK ==
  /\ \A p \in Pids : thr[p] = "peeked" => toMmu[p] # <<>> /\ Head(toMmu[p]) = req[p]
  /\ \A p \in Pids : thr[p] = "answered" =>
       LET q == Head(calls).page[1] IN
       toMmu[q] # <<>> /\ Head(toMmu[q]).type = Answer(Head(calls))

\* A message of the pager, or the answer to it, is on the sockets once, and only
\* for the call the holder of the locker waits for; the answer is sent after
\* the call took effect.
TokensOK ==
  \A q \in Pids :
    /\ \A j \in DOMAIN toCli[q] : toCli[q][j].type \in PagerReplies =>
         Sent(q) /\ toCli[q][j] = Message(Head(calls))
    /\ \A j \in DOMAIN toMmu[q] : toMmu[q][j].type \in PagerMessages =>
         Sent(q) /\ Effected(Head(calls))
    /\ AtMostOne(toCli[q], PagerReplies)
    /\ AtMostOne(toMmu[q], PagerMessages)
    /\ ~ (Has(toCli[q], PagerReplies) /\ Has(toMmu[q], PagerMessages))

-----------------------------------------------------------------------------
(* Memory *)

\* A program that has not called exit and was not killed is a client of the
\* pager, or will be one; it has a thread in the MMU once it has connected.
ClientOK ==
  \A p \in Pids :
    /\ app[p] \notin {"joining", "gone"} => client[p] \in {"none", "live"}
    /\ app[p] = "off" => thr[p] = "off"

\* The process of page pg can reach it, at the latest when it runs again.
Reach(pg) == client[pg[1]] \in {"none", "live"} /\ pte[pg].prot # "NONE"

MemoryOK ==
  \A pg \in PageIds :
    \* a page that can be reached is in its frame, or on its way out of it
    /\ Reach(pg) =>
         /\ Listed(pg)
         /\ pte[pg].frame = pages[pg].frame_number
         /\ pages[pg].isvalid = 1 \/ Evicting(pg)
         /\ ~ Loading(pg)
         /\ pte[pg].prot = "RW" => pages[pg].dirty = 1
    \* a resident page is mapped on its frame once the client was told
    /\ Listed(pg) /\ pages[pg].isvalid = 1 /\ ~ Pending({"resident"}, pg) =>
         pte[pg].frame = pages[pg].frame_number
    \* a page that is not dirty is what its block says
    /\ Listed(pg) /\ pages[pg].isvalid = 1 /\ pages[pg].dirty = 0 /\ ~ Loading(pg) =>
         pmem[pages[pg].frame_number] = Backing(pg)
    \* and may be evicted without a copy
    /\ Evicting(pg) /\ ~ Pending({"disk_write"}, pg) =>
         pages[pg].dirty = 0 /\ pmem[pages[pg].frame_number] = Backing(pg)

\* The inductive invariant.
SysIInv ==
  /\ SysTypeOK
  /\ MessagesOK
  /\ RoomToExtend
  /\ FrameOwnership
  /\ BlockOwnership
  /\ LockerOK
  /\ CallsOK
  /\ PeeksOK
  /\ TokensOK
  /\ ClientOK
  /\ MemoryOK

-----------------------------------------------------------------------------
(* The requests of a program.  None of this is needed for the memory to be   *)
(* right; it is what a program may rely on when it goes on.                  *)

\* A client that the pager has not created has asked for nothing else yet.
StartOK ==
  \A p \in Pids : client[p] = "none" =>
    /\ count[p] = 0
    /\ app[p] \in {"off", "connecting"}
    /\ thr[p] \in {"off", "recv", "peeked", "lock"}
    /\ thr[p] \in {"peeked", "lock"} => req[p].type = "CREATE_REQ"
    /\ \A j \in DOMAIN toMmu[p] : toMmu[p][j].type = "CREATE_REQ"
    /\ toCli[p] = <<>>

\* The type of the request a program waits to be answered.
Asked(p) ==
  CASE app[p] = "connecting" -> "CREATE_REQ"
    [] app[p] = "wait" -> wanted[p]
    [] app[p] = "joining" -> "EXIT_REQ"
    [] OTHER -> "nothing"

\* Its answer.
Reply(type) ==
  CASE type = "CREATE_REQ" -> "CREATE_REP"
    [] type = "EXTEND_REQ" -> "EXTEND_REP"
    [] type = "SYSLOG_REQ" -> "SYSLOG_REP"
    [] type = "SEGV_REQ" -> "SEGV_REP"
    [] type = "EXIT_REQ" -> "EXIT_REP"
    [] OTHER -> "none"

ProgramRequests == Requests \ PagerMessages
ProgramReplies == Replies \ PagerReplies

\* A message that tells a program of a new page.
Grants(msg) == msg.type = "EXTEND_REP" /\ msg.i # NULL

\* The pager has given p a page that the program does not count yet.
Granted(p) ==
  \/ thr[p] = "reply" /\ Grants(req[p])
  \/ \E j \in DOMAIN toCli[p] : Grants(toCli[p][j])
  \/ app[p] = "woken" /\ wanted[p] = "EXTEND_REQ" /\ result[p] # NULL

\* The request of a program that waits is in one place: on the socket, in its
\* thread, or back on the socket as the answer.  Nothing is on its way for one
\* that does not wait.  It holds of the programs nobody killed, as long as
\* pthread_cond_wait only returns when it is signalled.
RequestOK(p) ==
  /\ AtMostOne(toMmu[p], ProgramRequests)
  /\ AtMostOne(toCli[p], ProgramReplies)
  /\ thr[p] # "destroy"
  /\ thr[p] = "off" => app[p] = "off"
  /\ \A j \in DOMAIN toMmu[p] : toMmu[p][j].type \in ProgramRequests =>
       toMmu[p][j].type = Asked(p) /\ thr[p] \in {"recv", "peeked"}
  /\ \A j \in DOMAIN toCli[p] : toCli[p][j].type \in ProgramReplies =>
       /\ toCli[p][j].type = Reply(Asked(p))
       /\ thr[p] \in {"recv", "done"}
       /\ ~ Has(toMmu[p], ProgramRequests)
  /\ thr[p] = "lock" => req[p].type = Asked(p)
  /\ thr[p] \in Serving => Asked(p) = "SEGV_REQ"
  /\ thr[p] = "reply" => req[p].type = Reply(Asked(p))
  /\ thr[p] = "done" => Asked(p) = "EXIT_REQ"
  /\ app[p] \in {"wait", "woken"} => wanted[p] \in {"EXTEND_REQ", "SYSLOG_REQ", "SEGV_REQ"}
  /\ app[p] \in {"off", "connecting"} => npages[p] = 0
  /\ app[p] # "joining" => count[p] = IF Granted(p) THEN npages[p] + 1 ELSE npages[p]

RequestsOK == \A p \in Pids : app[p] # "gone" => RequestOK(p)


CtlTypes ==
  /\ app \in [Pids -> {"off", "connecting", "run", "wait", "woken", "joining", "gone"}]
  /\ result \in [Pids -> Indices \cup {NULL, Einval}]
  /\ npages \in [Pids -> 0..MaxPages]
  /\ thr \in [Pids -> {"off", "recv", "peeked", "lock", "reply", "destroy", "done"} \cup Serving]
  /\ mmu \in {"up", "aborted", "killed"}
  /\ client \in [Pids -> {"none", "live", "exiting", "dead"}]

Control ==
  /\ CtlTypes
  /\ MessagesOK
  /\ RoomToExtend
  /\ LockerOK
  /\ PeeksOK
  /\ TokensOK
  /\ ClientOK

-----------------------------------------------------------------------------
(* Sequences of messages *)

LEMMA AppendFacts ==
  ASSUME NEW S, NEW s \in Seq(S), NEW m \in S
  PROVE  /\ Append(s, m) \in Seq(S)
         /\ Append(s, m) # <<>>
         /\ Len(s) \in Nat
         /\ DOMAIN s = 1..Len(s)
         /\ DOMAIN Append(s, m) = 1..(Len(s) + 1)
         /\ \A j \in 1..Len(s) : Append(s, m)[j] = s[j]
         /\ Append(s, m)[Len(s) + 1] = m
         /\ s # <<>> => Head(Append(s, m)) = Head(s)
<1>1. Len(s) \in Nat /\ DOMAIN s = 1..Len(s)
  BY LenProperties
<1>2. /\ Append(s, m) \in Seq(S)
      /\ Append(s, m) # <<>>
      /\ Len(Append(s, m)) = Len(s) + 1
      /\ \A j \in 1..Len(s) : Append(s, m)[j] = s[j]
      /\ Append(s, m)[Len(s) + 1] = m
  BY AppendProperties
<1>3. DOMAIN Append(s, m) = 1..(Len(s) + 1)
  BY <1>2, LenProperties
<1>4. s # <<>> => Head(Append(s, m)) = Head(s)
  BY <1>1, <1>2, EmptySeq
<1> QED
  BY <1>1, <1>2, <1>3, <1>4

LEMMA TailFacts ==
  ASSUME NEW S, NEW s \in Seq(S), s # <<>>
  PROVE  /\ Tail(s) \in Seq(S)
         /\ Len(s) \in Nat \ {0}
         /\ DOMAIN s = 1..Len(s)
         /\ Head(s) = s[1]
         /\ Head(s) \in S
         /\ DOMAIN Tail(s) = 1..(Len(s) - 1)
         /\ \A j \in 1..(Len(s) - 1) : Tail(s)[j] = s[j + 1]
<1>1. Len(s) \in Nat \ {0} /\ DOMAIN s = 1..Len(s)
  BY LenProperties, EmptySeq
<1>2. /\ Tail(s) \in Seq(S)
      /\ Head(s) \in S
      /\ Len(Tail(s)) = Len(s) - 1
      /\ \A j \in 1..Len(Tail(s)) : Tail(s)[j] = s[j + 1]
  BY HeadTailProperties
<1>3. DOMAIN Tail(s) = 1..(Len(s) - 1)
  BY <1>2, LenProperties
<1>4. Head(s) = s[1]
  OBVIOUS
<1> QED
  BY <1>1, <1>2, <1>3, <1>4

\* Every message of these types in t is in s, and not more often.
FewerOf(t, s, types) ==
  /\ \A j \in DOMAIN t : t[j].type \in types => \E k \in DOMAIN s : s[k] = t[j]
  /\ AtMostOne(s, types) => AtMostOne(t, types)

LEMMA FewerSame ==
  ASSUME NEW s, NEW types
  PROVE  FewerOf(s, s, types)
BY DEF FewerOf

LEMMA FewerEmpty ==
  ASSUME NEW s, NEW types
  PROVE  FewerOf(<<>>, s, types)
BY DEF FewerOf, AtMostOne

LEMMA FewerTail ==
  ASSUME NEW S, NEW s \in Seq(S), s # <<>>, NEW types
  PROVE  FewerOf(Tail(s), s, types)
<1>1. /\ DOMAIN s = 1..Len(s) /\ Len(s) \in Nat \ {0}
      /\ DOMAIN Tail(s) = 1..(Len(s) - 1)
      /\ \A j \in 1..(Len(s) - 1) : Tail(s)[j] = s[j + 1]
  BY TailFacts
<1>2. \A j \in DOMAIN Tail(s) : j + 1 \in DOMAIN s /\ s[j + 1] = Tail(s)[j]
  BY <1>1
<1>3. \A j \in DOMAIN Tail(s) : \E k \in DOMAIN s : s[k] = Tail(s)[j]
  BY <1>2
<1>4. ASSUME AtMostOne(s, types), NEW j \in DOMAIN Tail(s), NEW k \in DOMAIN Tail(s),
             Tail(s)[j].type \in types, Tail(s)[k].type \in types
      PROVE  j = k
  <2>1. j + 1 = k + 1
    BY <1>2, <1>4 DEF AtMostOne
  <2> QED
    BY <1>1, <2>1
<1> QED
  BY <1>3, <1>4 DEF FewerOf, AtMostOne

LEMMA FewerAppend ==
  ASSUME NEW S, NEW s \in Seq(S), NEW m \in S, NEW types, m.type \notin types
  PROVE  FewerOf(Append(s, m), s, types)
<1>1. /\ Len(s) \in Nat
      /\ DOMAIN s = 1..Len(s)
      /\ DOMAIN Append(s, m) = 1..(Len(s) + 1)
      /\ \A j \in 1..Len(s) : Append(s, m)[j] = s[j]
      /\ Append(s, m)[Len(s) + 1] = m
  BY AppendFacts
<1>2. \A j \in DOMAIN Append(s, m) : Append(s, m)[j].type \in types =>
        j \in DOMAIN s /\ s[j] = Append(s, m)[j]
  BY <1>1
<1> QED
  BY <1>2 DEF FewerOf, AtMostOne

LEMMA FewerHas ==
  ASSUME NEW s, NEW t, NEW types, FewerOf(t, s, types), Has(t, types)
  PROVE  Has(s, types)
BY DEF FewerOf, Has

\* The only message of these types is gone once it is taken.
LEMMA TakeTheOne ==
  ASSUME NEW S, NEW s \in Seq(S), s # <<>>, NEW types,
         Head(s).type \in types, AtMostOne(s, types)
  PROVE  ~ Has(Tail(s), types)
<1>1. /\ DOMAIN s = 1..Len(s) /\ Len(s) \in Nat \ {0}
      /\ Head(s) = s[1]
      /\ DOMAIN Tail(s) = 1..(Len(s) - 1)
      /\ \A j \in 1..(Len(s) - 1) : Tail(s)[j] = s[j + 1]
  BY TailFacts
<1>2. ASSUME NEW j \in DOMAIN Tail(s), Tail(s)[j].type \in types
      PROVE  FALSE
  <2>1. 1 \in DOMAIN s /\ j + 1 \in DOMAIN s /\ j + 1 # 1
    BY <1>1
  <2>2. s[1].type \in types /\ s[j + 1].type \in types
    BY <1>1, <1>2
  <2> QED
    BY <2>1, <2>2 DEF AtMostOne
<1> QED
  BY <1>2 DEF Has

\* The first message of these types.
LEMMA PutTheOne ==
  ASSUME NEW S, NEW s \in Seq(S), NEW m \in S, NEW types, ~ Has(s, types)
  PROVE  /\ AtMostOne(Append(s, m), types)
         /\ \A j \in DOMAIN Append(s, m) : Append(s, m)[j].type \in types =>
              Append(s, m)[j] = m
<1>1. /\ Len(s) \in Nat
      /\ DOMAIN s = 1..Len(s)
      /\ DOMAIN Append(s, m) = 1..(Len(s) + 1)
      /\ \A j \in 1..Len(s) : Append(s, m)[j] = s[j]
      /\ Append(s, m)[Len(s) + 1] = m
  BY AppendFacts
<1>2. \A j \in DOMAIN Append(s, m) : Append(s, m)[j].type \in types => j = Len(s) + 1
  BY <1>1 DEF Has
<1> QED
  BY <1>1, <1>2 DEF AtMostOne

-----------------------------------------------------------------------------
(* The parts of messages and calls *)

LEMMA RequestParts ==
  ASSUME NEW m \in RequestMsg
  PROVE  /\ m.type \in Requests
         /\ m.type \in {"SYSLOG_REQ", "SEGV_REQ"} => m.i \in Indices
BY DEF RequestMsg, Requests

LEMMA ReplyParts ==
  ASSUME NEW m \in ReplyMsg
  PROVE  /\ m.type \in Replies
         /\ m.type \in {"EXTEND_REP", "SYSLOG_REP"} => m.i \in Indices \cup {NULL, Einval}
         /\ m.type \in PagerReplies => m.i \in Indices /\ m.prot \in Prots
         /\ m.type = "REMAP_REP" => m.frame \in Frames
BY DEF ReplyMsg, Replies, PagerReplies

LEMMA CallParts ==
  ASSUME NEW c \in MmuCall
  PROVE  /\ c.op \in WaitingCalls \cup Transfers
         /\ c.page \in PageIds
         /\ c.page[1] \in Pids
         /\ c.page[2] \in Indices
         /\ c.op \in WaitingCalls => c.prot \in Prots
         /\ c.op \notin {"chprot", "nonresident"} => c.frame \in Frames
         /\ c.op \in Transfers => c.block \in Blocks
<1>1. c.page \in PageIds
  BY DEF MmuCall
<1>2. c.page[1] \in Pids /\ c.page[2] \in Indices
  BY <1>1, PageIdParts, SizesAssumption DEF Indices
<1> QED
  BY <1>1, <1>2 DEF MmuCall, WaitingCalls, Transfers

\* The message of a call is one of the two the pager sends.
LEMMA MessageParts ==
  ASSUME NEW c \in MmuCall, c.op \in WaitingCalls
  PROVE  /\ Message(c) \in ReplyMsg
         /\ Message(c).type \in PagerReplies
         /\ Message(c).i = c.page[2]
         /\ Message(c).prot = c.prot
         /\ Message(c).type = "REMAP_REP" <=> c.op = "resident"
         /\ c.op = "resident" => Message(c).frame = c.frame
<1>1. c.page[2] \in Indices /\ c.prot \in Prots /\ (c.op = "resident" => c.frame \in Frames)
  BY CallParts
<1> QED
  BY <1>1 DEF Message, ReplyMsg, PagerReplies

\* A call that has been made is at the head of the list.
LEMMA HeadOfCalls ==
  ASSUME MessagesOK, calls # <<>>
  PROVE  /\ Head(calls) \in MmuCall
         /\ Head(calls).page \in PageIds
         /\ Head(calls).page[1] \in Pids
         /\ Tail(calls) \in Seq(MmuCall)
<1>1. Head(calls) \in MmuCall /\ Tail(calls) \in Seq(MmuCall)
  BY TailFacts DEF MessagesOK
<1> QED
  BY <1>1, CallParts

-----------------------------------------------------------------------------
(* What sending and receiving do to the sockets *)

LEMMA PutMmu ==
  ASSUME MessagesOK, NEW p \in Pids, NEW m \in RequestMsg, toMmu' = Put(toMmu, p, m)
  PROVE  /\ toMmu' \in [Pids -> Seq(RequestMsg)]
         /\ toMmu'[p] = Append(toMmu[p], m)
         /\ \A q \in Pids : q # p => toMmu'[q] = toMmu[q]
         /\ \A q \in Pids : toMmu[q] # <<>> =>
              toMmu'[q] # <<>> /\ Head(toMmu'[q]) = Head(toMmu[q])
         /\ m.type \notin PagerMessages =>
              \A q \in Pids : FewerOf(toMmu'[q], toMmu[q], PagerMessages)
<1>1. toMmu \in [Pids -> Seq(RequestMsg)]
  BY DEF MessagesOK
<1>2. toMmu' = [toMmu EXCEPT ![p] = Append(toMmu[p], m)]
  BY DEF Put
<1>3. /\ Append(toMmu[p], m) \in Seq(RequestMsg)
      /\ Append(toMmu[p], m) # <<>>
      /\ toMmu[p] # <<>> => Head(Append(toMmu[p], m)) = Head(toMmu[p])
  BY <1>1, AppendFacts
<1>4. m.type \notin PagerMessages => FewerOf(Append(toMmu[p], m), toMmu[p], PagerMessages)
  BY <1>1, FewerAppend
<1>5. toMmu'[p] = Append(toMmu[p], m) /\ \A q \in Pids : q # p => toMmu'[q] = toMmu[q]
  BY <1>1, <1>2
<1>6. toMmu' \in [Pids -> Seq(RequestMsg)]
  BY <1>1, <1>2, <1>3
<1>7. m.type \notin PagerMessages =>
        \A q \in Pids : FewerOf(toMmu'[q], toMmu[q], PagerMessages)
  BY <1>4, <1>5, FewerSame
<1> QED
  BY <1>3, <1>5, <1>6, <1>7

LEMMA TakeMmu ==
  ASSUME MessagesOK, NEW p \in Pids, toMmu[p] # <<>>, toMmu' = Take(toMmu, p)
  PROVE  /\ toMmu' \in [Pids -> Seq(RequestMsg)]
         /\ toMmu'[p] = Tail(toMmu[p])
         /\ \A q \in Pids : q # p => toMmu'[q] = toMmu[q]
         /\ \A q \in Pids : FewerOf(toMmu'[q], toMmu[q], PagerMessages)
<1>1. toMmu \in [Pids -> Seq(RequestMsg)]
  BY DEF MessagesOK
<1>2. toMmu' = [toMmu EXCEPT ![p] = Tail(toMmu[p])]
  BY DEF Take
<1>3. Tail(toMmu[p]) \in Seq(RequestMsg) /\ FewerOf(Tail(toMmu[p]), toMmu[p], PagerMessages)
  BY <1>1, TailFacts, FewerTail
<1>4. toMmu'[p] = Tail(toMmu[p]) /\ \A q \in Pids : q # p => toMmu'[q] = toMmu[q]
  BY <1>1, <1>2
<1> QED
  BY <1>1, <1>2, <1>3, <1>4, FewerSame

LEMMA PutCli ==
  ASSUME MessagesOK, NEW p \in Pids, NEW m \in ReplyMsg, toCli' = Put(toCli, p, m)
  PROVE  /\ toCli' \in [Pids -> Seq(ReplyMsg)]
         /\ toCli'[p] = Append(toCli[p], m)
         /\ \A q \in Pids : q # p => toCli'[q] = toCli[q]
         /\ m.type \notin PagerReplies =>
              \A q \in Pids : FewerOf(toCli'[q], toCli[q], PagerReplies)
<1>1. toCli \in [Pids -> Seq(ReplyMsg)]
  BY DEF MessagesOK
<1>2. toCli' = [toCli EXCEPT ![p] = Append(toCli[p], m)]
  BY DEF Put
<1>3. Append(toCli[p], m) \in Seq(ReplyMsg)
  BY <1>1, AppendFacts
<1>4. m.type \notin PagerReplies => FewerOf(Append(toCli[p], m), toCli[p], PagerReplies)
  BY <1>1, FewerAppend
<1>5. toCli'[p] = Append(toCli[p], m) /\ \A q \in Pids : q # p => toCli'[q] = toCli[q]
  BY <1>1, <1>2
<1>6. toCli' \in [Pids -> Seq(ReplyMsg)]
  BY <1>1, <1>2, <1>3
<1>7. m.type \notin PagerReplies =>
        \A q \in Pids : FewerOf(toCli'[q], toCli[q], PagerReplies)
  BY <1>4, <1>5, FewerSame
<1> QED
  BY <1>5, <1>6, <1>7

LEMMA TakeCli ==
  ASSUME MessagesOK, NEW p \in Pids, toCli[p] # <<>>, toCli' = Take(toCli, p)
  PROVE  /\ toCli' \in [Pids -> Seq(ReplyMsg)]
         /\ Head(toCli[p]) \in ReplyMsg
         /\ 1 \in DOMAIN toCli[p] /\ Head(toCli[p]) = toCli[p][1]
         /\ toCli'[p] = Tail(toCli[p])
         /\ \A q \in Pids : q # p => toCli'[q] = toCli[q]
         /\ \A q \in Pids : FewerOf(toCli'[q], toCli[q], PagerReplies)
<1>1. toCli \in [Pids -> Seq(ReplyMsg)]
  BY DEF MessagesOK
<1>2. toCli' = [toCli EXCEPT ![p] = Tail(toCli[p])]
  BY DEF Take
<1>3. /\ Tail(toCli[p]) \in Seq(ReplyMsg)
      /\ Head(toCli[p]) \in ReplyMsg
      /\ DOMAIN toCli[p] = 1..Len(toCli[p]) /\ Len(toCli[p]) \in Nat \ {0}
      /\ Head(toCli[p]) = toCli[p][1]
      /\ FewerOf(Tail(toCli[p]), toCli[p], PagerReplies)
  BY <1>1, TailFacts, FewerTail
<1>4. toCli'[p] = Tail(toCli[p]) /\ \A q \in Pids : q # p => toCli'[q] = toCli[q]
  BY <1>1, <1>2
<1>5. 1 \in DOMAIN toCli[p]
  BY <1>3
<1> QED
  BY <1>1, <1>2, <1>3, <1>4, <1>5, FewerSame

LEMMA ClearCli ==
  ASSUME MessagesOK, NEW p \in Pids, toCli' = [toCli EXCEPT ![p] = <<>>]
  PROVE  /\ toCli' \in [Pids -> Seq(ReplyMsg)]
         /\ \A q \in Pids : FewerOf(toCli'[q], toCli[q], PagerReplies)
<1>1. toCli \in [Pids -> Seq(ReplyMsg)]
  BY DEF MessagesOK
<1>2. toCli'[p] = <<>> /\ \A q \in Pids : q # p => toCli'[q] = toCli[q]
  BY <1>1
<1> QED
  BY <1>1, <1>2, EmptySeq, FewerSame, FewerEmpty

-----------------------------------------------------------------------------
(* Steps that keep a part of the invariant *)

\* Nobody begins or ends to wait, and at most ordinary messages are added.
LEMMA TokensKeep ==
  ASSUME TokensOK,
         \A q \in Pids : thr[q] \in AtAnswer => thr'[q] \in AtAnswer,
         UNCHANGED <<calls, pte>>,
         \A q \in Pids : FewerOf(toMmu'[q], toMmu[q], PagerMessages),
         \A q \in Pids : FewerOf(toCli'[q], toCli[q], PagerReplies)
  PROVE  TokensOK'
<1>1. \A q \in Pids : Sent(q) => Sent(q)'
  BY DEF Sent
<1>2. Effected(Head(calls))' <=> Effected(Head(calls))
  BY DEF Effected
<1> SUFFICES ASSUME NEW q \in Pids
    PROVE  /\ \A j \in DOMAIN toCli'[q] : toCli'[q][j].type \in PagerReplies =>
                Sent(q)' /\ toCli'[q][j] = Message(Head(calls))
           /\ \A j \in DOMAIN toMmu'[q] : toMmu'[q][j].type \in PagerMessages =>
                Sent(q)' /\ Effected(Head(calls))'
           /\ AtMostOne(toCli'[q], PagerReplies)
           /\ AtMostOne(toMmu'[q], PagerMessages)
           /\ ~ (Has(toCli'[q], PagerReplies) /\ Has(toMmu'[q], PagerMessages))
  BY DEF TokensOK
<1>3. \A j \in DOMAIN toCli'[q] : toCli'[q][j].type \in PagerReplies =>
        Sent(q)' /\ toCli'[q][j] = Message(Head(calls))
  BY <1>1 DEF TokensOK, FewerOf
<1>4. \A j \in DOMAIN toMmu'[q] : toMmu'[q][j].type \in PagerMessages =>
        Sent(q)' /\ Effected(Head(calls))'
  BY <1>1, <1>2 DEF TokensOK, FewerOf
<1>5. AtMostOne(toCli'[q], PagerReplies) /\ AtMostOne(toMmu'[q], PagerMessages)
  BY DEF TokensOK, FewerOf
<1>6. ~ (Has(toCli'[q], PagerReplies) /\ Has(toMmu'[q], PagerMessages))
  BY FewerHas DEF TokensOK
<1> QED
  BY <1>3, <1>4, <1>5, <1>6

\* No message of the pager is on a socket.
NoTokens == \A q \in Pids : ~ Has(toCli[q], PagerReplies) /\ ~ Has(toMmu[q], PagerMessages)

LEMMA NobodyWaits ==
  ASSUME TokensOK, \A p \in Pids : thr[p] \notin AtAnswer
  PROVE  NoTokens
BY DEF TokensOK, Sent, NoTokens, Has

LEMMA NoTokensOK == NoTokens => TokensOK
BY DEF NoTokens, TokensOK, Has, AtMostOne

LEMMA NoTokensKeep ==
  ASSUME NoTokens,
         \A q \in Pids : FewerOf(toMmu'[q], toMmu[q], PagerMessages),
         \A q \in Pids : FewerOf(toCli'[q], toCli[q], PagerReplies)
  PROVE  NoTokens'
<1>1. \A q \in Pids : ~ Has(toCli'[q], PagerReplies) /\ ~ Has(toMmu'[q], PagerMessages)
  BY FewerHas DEF NoTokens
<1> QED
  BY <1>1 DEF NoTokens

\* Nobody begins to wait and no thread loses the message it looks at.
LEMMA PeeksKeep ==
  ASSUME MessagesOK, LockerOK, PeeksOK, UNCHANGED calls,
         \A q \in Pids : thr'[q] = "peeked" => thr[q] = "peeked" /\ req'[q] = req[q],
         \A q \in Pids : thr'[q] = "answered" => thr[q] = "answered",
         \A q \in Pids : toMmu[q] # <<>> =>
           toMmu'[q] # <<>> /\ Head(toMmu'[q]) = Head(toMmu[q])
  PROVE  PeeksOK'
<1>1. ASSUME NEW p \in Pids, thr'[p] = "peeked"
      PROVE  toMmu'[p] # <<>> /\ Head(toMmu'[p]) = req'[p]
  BY <1>1 DEF PeeksOK
<1>2. ASSUME NEW p \in Pids, thr'[p] = "answered"
      PROVE  /\ toMmu'[Head(calls).page[1]] # <<>>
             /\ Head(toMmu'[Head(calls).page[1]]).type = Answer(Head(calls))
  <2>1. thr[p] = "answered" /\ calls # <<>>
    BY <1>2 DEF LockerOK, AtAnswer
  <2>2. Head(calls).page[1] \in Pids
    BY <2>1, HeadOfCalls
  <2> QED
    BY <2>1, <2>2 DEF PeeksOK
<1>3. Answer(Head(calls))' = Answer(Head(calls))
  BY DEF Answer
<1> QED
  BY <1>1, <1>2, <1>3 DEF PeeksOK

\* Nobody takes or releases the locker and its holder makes no call.
LEMMA LockerKeep ==
  ASSUME LockerOK, UNCHANGED <<locker, calls>>,
         \A q \in Pids : thr'[q] \in Serving <=> thr[q] \in Serving,
         \A q \in Pids : thr'[q] \in AtAnswer => thr[q] \in AtAnswer
  PROVE  LockerOK'
BY DEF LockerOK

\* A step of a program or of a uvm_thread.
LEMMA ThreadsKeep ==
  ASSUME MessagesOK, LockerOK, PeeksOK, UNCHANGED thrVars,
         \A q \in Pids : toMmu[q] # <<>> =>
           toMmu'[q] # <<>> /\ Head(toMmu'[q]) = Head(toMmu[q])
  PROVE  LockerOK' /\ PeeksOK'
<1>1. UNCHANGED <<thr, req, locker, calls>>
  BY DEF thrVars
<1> QED
  BY <1>1, LockerKeep, PeeksKeep

LEMMA ThreadsMessages ==
  ASSUME MessagesOK, UNCHANGED thrVars,
         toMmu' \in [Pids -> Seq(RequestMsg)], toCli' \in [Pids -> Seq(ReplyMsg)],
         wanted' \in [Pids -> Requests \cup {NULL}]
  PROVE  MessagesOK'
BY DEF MessagesOK, thrVars

-----------------------------------------------------------------------------
(* The program *)

LEMMA CreateControl ==
  ASSUME Control, NEW p \in Pids, uvm_create(p)
  PROVE  Control'
<1> USE DEF Control
<1> DEFINE m == [type |-> "CREATE_REQ"]
<1>1. /\ app[p] = "off"
      /\ app' = [app EXCEPT ![p] = "connecting"]
      /\ toMmu' = Put(toMmu, p, m)
      /\ thr' = [thr EXCEPT ![p] = "recv"]
      /\ UNCHANGED <<client, pte, wanted, result, npages, toCli, req, locker, calls, mmu>>
  BY DEF uvm_create, vars
<1>2. m \in RequestMsg /\ m.type \notin PagerMessages
  BY DEF RequestMsg, Requests, PagerMessages
<1> HIDE DEF m
<1>3. thr[p] = "off" /\ thr'[p] = "recv" /\ \A q \in Pids : q # p => thr'[q] = thr[q]
  BY <1>1 DEF ClientOK, CtlTypes
<1>4. /\ toMmu' \in [Pids -> Seq(RequestMsg)]
      /\ \A q \in Pids : toMmu[q] # <<>> =>
           toMmu'[q] # <<>> /\ Head(toMmu'[q]) = Head(toMmu[q])
      /\ \A q \in Pids : FewerOf(toMmu'[q], toMmu[q], PagerMessages)
  BY <1>1, <1>2, PutMmu
<1>5. CtlTypes'
  BY <1>1 DEF CtlTypes
<1>6. MessagesOK'
  BY <1>1, <1>3, <1>4 DEF MessagesOK
<1>7. RoomToExtend'
  BY <1>1 DEF RoomToExtend, CtlTypes
<1>8. LockerOK'
  BY <1>1, <1>3, LockerKeep DEF Serving, AtAnswer
<1>9. PeeksOK'
  BY <1>1, <1>3, <1>4, PeeksKeep
<1>10. TokensOK'
  <2>1. \A q \in Pids : thr[q] \in AtAnswer => thr'[q] \in AtAnswer
    BY <1>3 DEF AtAnswer
  <2>2. \A q \in Pids : FewerOf(toCli'[q], toCli[q], PagerReplies)
    BY <1>1, FewerSame
  <2> QED
    BY <1>1, <1>4, <2>1, <2>2, TokensKeep
<1>11. ClientOK'
  BY <1>1, <1>3 DEF ClientOK, CtlTypes
<1> QED
  BY <1>5, <1>6, <1>7, <1>8, <1>9, <1>10, <1>11

\* Steps of a program or of a uvm_thread that put at most ordinary messages on
\* the sockets, and change neither the mappings nor a thread of the MMU.
LEMMA OrdinaryControl ==
  ASSUME Control, CtlTypes', RoomToExtend', ClientOK', UNCHANGED <<thrVars, pte>>,
         wanted' \in [Pids -> Requests \cup {NULL}],
         toMmu' \in [Pids -> Seq(RequestMsg)], toCli' \in [Pids -> Seq(ReplyMsg)],
         \A q \in Pids : toMmu[q] # <<>> =>
           toMmu'[q] # <<>> /\ Head(toMmu'[q]) = Head(toMmu[q]),
         \A q \in Pids : FewerOf(toMmu'[q], toMmu[q], PagerMessages),
         \A q \in Pids : FewerOf(toCli'[q], toCli[q], PagerReplies)
  PROVE  Control'
<1> USE DEF Control
<1>1. MessagesOK'
  BY ThreadsMessages
<1>2. LockerOK' /\ PeeksOK'
  BY ThreadsKeep
<1>3. TokensOK'
  <2>1. UNCHANGED <<thr, calls, pte>>
    BY DEF thrVars
  <2> QED
    BY <2>1, TokensKeep
<1> QED
  BY <1>1, <1>2, <1>3

\* The same with nothing put on the sockets.
LEMMA SilentControl ==
  ASSUME Control, CtlTypes', RoomToExtend', ClientOK',
         UNCHANGED <<thrVars, pte, wanted, toMmu, toCli>>
  PROVE  Control'
<1>1. \A q \in Pids : /\ FewerOf(toMmu'[q], toMmu[q], PagerMessages)
                      /\ FewerOf(toCli'[q], toCli[q], PagerReplies)
  BY FewerSame
<1>2. /\ wanted' \in [Pids -> Requests \cup {NULL}]
      /\ toMmu' \in [Pids -> Seq(RequestMsg)]
      /\ toCli' \in [Pids -> Seq(ReplyMsg)]
  BY DEF Control, MessagesOK
<1> QED
  BY <1>1, <1>2, OrdinaryControl

LEMMA CreatedControl ==
  ASSUME Control, NEW p \in Pids, uvm_created(p)
  PROVE  Control'
<1> USE DEF Control
<1>1. /\ app[p] = "connecting"
      /\ toCli[p] # <<>>
      /\ toCli' = Take(toCli, p)
      /\ app' = [app EXCEPT ![p] = "run"]
      /\ UNCHANGED <<thrVars, client, pte, wanted, result, npages, toMmu>>
  BY DEF uvm_created, vars
<1>2. CtlTypes' /\ RoomToExtend' /\ ClientOK'
  BY <1>1 DEF CtlTypes, RoomToExtend, ClientOK, thrVars
<1>3. /\ toCli' \in [Pids -> Seq(ReplyMsg)]
      /\ \A q \in Pids : FewerOf(toCli'[q], toCli[q], PagerReplies)
  BY <1>1, TakeCli
<1>4. \A q \in Pids : FewerOf(toMmu'[q], toMmu[q], PagerMessages)
  BY <1>1, FewerSame
<1> QED
  BY <1>1, <1>2, <1>3, <1>4, OrdinaryControl DEF MessagesOK

LEMMA RequestControl ==
  ASSUME Control, NEW p \in Pids, NEW m \in RequestMsg, m.type \notin PagerMessages,
         m.type = "EXTEND_REQ" => npages[p] < MaxPages, Request(p, m)
  PROVE  Control'
<1> USE DEF Control
<1>1. /\ app[p] = "run"
      /\ toMmu' = Put(toMmu, p, m)
      /\ app' = [app EXCEPT ![p] = "wait"]
      /\ wanted' = [wanted EXCEPT ![p] = m.type]
      /\ UNCHANGED <<thrVars, client, pte, result, npages, toCli>>
  BY DEF Request, vars
<1>2. CtlTypes' /\ ClientOK'
  BY <1>1 DEF CtlTypes, ClientOK, thrVars
<1>3. RoomToExtend'
  BY <1>1 DEF CtlTypes, MessagesOK, RoomToExtend
<1>4. wanted' \in [Pids -> Requests \cup {NULL}]
  BY <1>1, RequestParts DEF MessagesOK
<1>5. /\ toMmu' \in [Pids -> Seq(RequestMsg)]
      /\ \A q \in Pids : toMmu[q] # <<>> =>
           toMmu'[q] # <<>> /\ Head(toMmu'[q]) = Head(toMmu[q])
      /\ \A q \in Pids : FewerOf(toMmu'[q], toMmu[q], PagerMessages)
  BY <1>1, PutMmu
<1>6. \A q \in Pids : FewerOf(toCli'[q], toCli[q], PagerReplies)
  BY <1>1, FewerSame
<1> QED
  BY <1>1, <1>2, <1>3, <1>4, <1>5, <1>6, OrdinaryControl DEF MessagesOK

LEMMA AllRequestsControl ==
  ASSUME Control, NEW p \in Pids,
         \/ uvm_extend(p)
         \/ \E i \in Indices : uvm_segv_action(p, i) \/ uvm_syslog(p, i)
  PROVE  Control'
<1>1. CASE uvm_extend(p)
  <2>1. [type |-> "EXTEND_REQ"] \in RequestMsg
    BY DEF RequestMsg, Requests
  <2>2. /\ npages[p] < MaxPages
        /\ Request(p, [type |-> "EXTEND_REQ"])
    BY <1>1 DEF uvm_extend
  <2> QED
    BY <2>1, <2>2, RequestControl DEF PagerMessages
<1>2. CASE \E i \in Indices : uvm_segv_action(p, i) \/ uvm_syslog(p, i)
  <2>1. PICK i \in Indices : uvm_segv_action(p, i) \/ uvm_syslog(p, i)
    BY <1>2
  <2>2. PICK m \in {[type |-> "SEGV_REQ", i |-> i], [type |-> "SYSLOG_REQ", i |-> i]} :
          Request(p, m)
    BY <2>1 DEF uvm_segv_action, uvm_syslog
  <2>3. m \in RequestMsg /\ m.type \notin PagerMessages /\ m.type # "EXTEND_REQ"
    BY <2>2 DEF RequestMsg, PagerMessages
  <2> QED
    BY <2>2, <2>3, RequestControl
<1> QED
  BY <1>1, <1>2

LEMMA ResumeControl ==
  ASSUME Control, NEW p \in Pids, Resume(p)
  PROVE  Control'
<1> USE DEF Control
<1>1. /\ app[p] = "woken"
      /\ app' = [app EXCEPT ![p] = "run"]
      /\ npages' = IF wanted[p] = "EXTEND_REQ" /\ result[p] # NULL
                   THEN [npages EXCEPT ![p] = @ + 1] ELSE npages
      /\ UNCHANGED <<thrVars, client, pte, wanted, result, toMmu, toCli>>
  BY DEF Resume, vars
<1>2. npages' \in [Pids -> 0..MaxPages]
  BY <1>1, SizesAssumption DEF CtlTypes, RoomToExtend
<1>3. CtlTypes' /\ ClientOK'
  BY <1>1, <1>2 DEF CtlTypes, ClientOK, thrVars
<1>4. RoomToExtend'
  BY <1>1 DEF CtlTypes, RoomToExtend
<1> QED
  BY <1>1, <1>3, <1>4, SilentControl

LEMMA WakeupControl ==
  ASSUME Control, NEW p \in Pids, SpuriousWakeup(p)
  PROVE  Control'
<1> USE DEF Control
<1>1. /\ app[p] = "wait"
      /\ app' = [app EXCEPT ![p] = "woken"]
      /\ UNCHANGED <<thrVars, client, pte, wanted, result, npages, toMmu, toCli>>
  BY DEF SpuriousWakeup, vars
<1>2. CtlTypes' /\ ClientOK' /\ RoomToExtend'
  BY <1>1 DEF CtlTypes, ClientOK, RoomToExtend, thrVars
<1> QED
  BY <1>1, <1>2, SilentControl

LEMMA StoreControl ==
  ASSUME Control, NEW p \in Pids, NEW i \in Indices, NEW v \in Values, Store(p, i, v)
  PROVE  Control'
<1> USE DEF Control
<1>1. UNCHANGED <<thrVars, app, client, pte, wanted, result, npages, toMmu, toCli>>
  BY DEF Store, pagerVars
<1>2. CtlTypes' /\ ClientOK' /\ RoomToExtend'
  BY <1>1 DEF CtlTypes, ClientOK, RoomToExtend, thrVars
<1> QED
  BY <1>1, <1>2, SilentControl

LEMMA ExitControl ==
  ASSUME Control, NEW p \in Pids, uvm_exit(p)
  PROVE  Control'
<1> USE DEF Control
<1> DEFINE m == [type |-> "EXIT_REQ"]
<1>1. /\ app[p] = "run"
      /\ app' = [app EXCEPT ![p] = "joining"]
      /\ client' = [client EXCEPT ![p] = "exiting"]
      /\ toMmu' = Put(toMmu, p, m)
      /\ UNCHANGED <<thrVars, pte, wanted, result, npages, toCli>>
  BY DEF uvm_exit
<1>2. m \in RequestMsg /\ m.type \notin PagerMessages
  BY DEF RequestMsg, Requests, PagerMessages
<1> HIDE DEF m
<1>3. CtlTypes' /\ ClientOK' /\ RoomToExtend'
  BY <1>1 DEF CtlTypes, ClientOK, RoomToExtend, thrVars
<1>4. /\ toMmu' \in [Pids -> Seq(RequestMsg)]
      /\ \A q \in Pids : toMmu[q] # <<>> =>
           toMmu'[q] # <<>> /\ Head(toMmu'[q]) = Head(toMmu[q])
      /\ \A q \in Pids : FewerOf(toMmu'[q], toMmu[q], PagerMessages)
  BY <1>1, <1>2, PutMmu
<1>5. \A q \in Pids : FewerOf(toCli'[q], toCli[q], PagerReplies)
  BY <1>1, FewerSame
<1> QED
  BY <1>1, <1>3, <1>4, <1>5, OrdinaryControl DEF MessagesOK

LEMMA DieControl ==
  ASSUME Control, NEW p \in Pids, Die(p)
  PROVE  Control'
<1> USE DEF Control
<1>1. /\ app' = [app EXCEPT ![p] = "gone"]
      /\ client' = [client EXCEPT ![p] = "exiting"]
      /\ toCli' = [toCli EXCEPT ![p] = <<>>]
      /\ UNCHANGED <<thrVars, pte, wanted, result, npages, toMmu>>
  BY DEF Die
<1>2. CtlTypes' /\ ClientOK' /\ RoomToExtend'
  BY <1>1 DEF CtlTypes, ClientOK, RoomToExtend, thrVars
<1>3. /\ toCli' \in [Pids -> Seq(ReplyMsg)]
      /\ \A q \in Pids : FewerOf(toCli'[q], toCli[q], PagerReplies)
  BY <1>1, ClearCli
<1>4. \A q \in Pids : FewerOf(toMmu'[q], toMmu[q], PagerMessages)
  BY <1>1, FewerSame
<1> QED
  BY <1>1, <1>2, <1>3, <1>4, OrdinaryControl DEF MessagesOK

LEMMA ProgramControl ==
  ASSUME Control, NEW p \in Pids, Program(p) \/ Returns(p)
  PROVE  Control'
<1>1. CASE uvm_create(p)
  BY <1>1, CreateControl
<1>2. CASE \/ uvm_extend(p)
           \/ \E i \in Indices : uvm_segv_action(p, i) \/ uvm_syslog(p, i)
  BY <1>2, AllRequestsControl
<1>3. CASE \E i \in Indices, v \in Values : Store(p, i, v)
  BY <1>3, StoreControl
<1>4. CASE uvm_exit(p) \/ SpuriousWakeup(p) \/ Die(p)
  BY <1>4, ExitControl, WakeupControl, DieControl
<1>5. CASE Returns(p)
  BY <1>5, CreatedControl, ResumeControl DEF Returns
<1> QED
  BY <1>1, <1>2, <1>3, <1>4, <1>5 DEF Program, Indices

-----------------------------------------------------------------------------
(* uvm_thread *)

\* The message of the pager that p receives is that of the call under way, and
\* no other one is on a socket.
LEMMA PagerReplyFacts ==
  ASSUME Control, NEW p \in Pids, toCli[p] # <<>>, Head(toCli[p]).type \in PagerReplies
  PROVE  /\ Sent(p)
         /\ calls # <<>>
         /\ Head(calls) \in MmuCall
         /\ Head(calls).op \in WaitingCalls
         /\ Head(toCli[p]) = Message(Head(calls))
         /\ Head(calls).page \in PageIds
         /\ Head(calls).page = <<p, Head(toCli[p]).i>>
         /\ ~ Has(Tail(toCli[p]), PagerReplies)
         /\ \A q \in Pids : ~ Has(toMmu[q], PagerMessages)
         /\ \A q \in Pids : q # p => ~ Has(toCli[q], PagerReplies)
<1> USE DEF Control
<1>1. /\ toCli[p] \in Seq(ReplyMsg)
      /\ 1 \in DOMAIN toCli[p]
      /\ Head(toCli[p]) = toCli[p][1]
  <2>1. toCli[p] \in Seq(ReplyMsg)
    BY DEF MessagesOK
  <2> QED
    BY <2>1, TailFacts
<1>2. Sent(p) /\ Head(toCli[p]) = Message(Head(calls))
  BY <1>1 DEF TokensOK
<1>3. PICK h \in Pids : thr[h] \in AtAnswer /\ Head(calls).page[1] = p
  BY <1>2 DEF Sent
<1>4. calls # <<>> /\ Head(calls).op \in WaitingCalls
  BY <1>3 DEF LockerOK
<1>5. Head(calls) \in MmuCall /\ Head(calls).page \in PageIds
  BY <1>4, HeadOfCalls
<1>6. Head(toCli[p]).i = Head(calls).page[2]
  BY <1>2, <1>4, <1>5, MessageParts
<1>7. Head(calls).page = <<p, Head(toCli[p]).i>>
  BY <1>3, <1>5, <1>6, PageIdParts
<1>8. ~ Has(Tail(toCli[p]), PagerReplies)
  BY <1>1, TakeTheOne DEF TokensOK
<1>9. Has(toCli[p], PagerReplies)
  BY <1>1 DEF Has
<1>10. ASSUME NEW q \in Pids, q # p
       PROVE  ~ Has(toMmu[q], PagerMessages) /\ ~ Has(toCli[q], PagerReplies)
  <2>1. ~ Sent(q)
    BY <1>3, <1>10 DEF Sent
  <2> QED
    BY <2>1 DEF TokensOK, Has
<1>11. ~ Has(toMmu[p], PagerMessages)
  BY <1>9 DEF TokensOK
<1> QED
  BY <1>2, <1>4, <1>5, <1>7, <1>8, <1>10, <1>11

\* The client answers a message of the pager that has taken effect.
LEMMA AnswerControl ==
  ASSUME Control, NEW p \in Pids, toCli[p] # <<>>, Head(toCli[p]).type \in PagerReplies,
         NEW m \in RequestMsg, m.type \in PagerMessages,
         toMmu' = Put(toMmu, p, m), toCli' = Take(toCli, p),
         Effected(Head(calls))', UNCHANGED <<client, cliVars, thrVars>>
  PROVE  Control'
<1> USE DEF Control
<1>1. UNCHANGED <<thr, req, locker, calls, mmu, app, wanted, result, npages>>
  BY DEF thrVars, cliVars
<1>2. CtlTypes' /\ RoomToExtend' /\ ClientOK'
  BY <1>1 DEF CtlTypes, RoomToExtend, ClientOK
<1>3. /\ toMmu' \in [Pids -> Seq(RequestMsg)]
      /\ toMmu'[p] = Append(toMmu[p], m)
      /\ \A q \in Pids : q # p => toMmu'[q] = toMmu[q]
      /\ \A q \in Pids : toMmu[q] # <<>> =>
           toMmu'[q] # <<>> /\ Head(toMmu'[q]) = Head(toMmu[q])
  BY PutMmu
<1>4. /\ toCli' \in [Pids -> Seq(ReplyMsg)]
      /\ toCli'[p] = Tail(toCli[p])
      /\ \A q \in Pids : q # p => toCli'[q] = toCli[q]
  BY TakeCli
<1>5. MessagesOK'
  BY <1>1, <1>3, <1>4, ThreadsMessages DEF MessagesOK
<1>6. LockerOK' /\ PeeksOK'
  BY <1>3, ThreadsKeep
<1>7. Sent(p)'
  BY <1>1, PagerReplyFacts DEF Sent
<1>8. TokensOK'
  <2>1. \A q \in Pids : ~ Has(toCli'[q], PagerReplies)
    BY <1>4, PagerReplyFacts
  <2>2. \A q \in Pids : q # p => ~ Has(toMmu'[q], PagerMessages)
    BY <1>3, PagerReplyFacts
  <2>3. AtMostOne(toMmu'[p], PagerMessages)
    <3>1. ~ Has(toMmu[p], PagerMessages) /\ toMmu[p] \in Seq(RequestMsg)
      BY PagerReplyFacts DEF MessagesOK
    <3> QED
      BY <1>3, <3>1, PutTheOne
  <2> SUFFICES ASSUME NEW q \in Pids
      PROVE  /\ \A j \in DOMAIN toMmu'[q] : toMmu'[q][j].type \in PagerMessages =>
                  Sent(q)' /\ Effected(Head(calls))'
             /\ AtMostOne(toMmu'[q], PagerMessages)
             /\ ~ Has(toCli'[q], PagerReplies)
    BY DEF TokensOK, Has, AtMostOne
  <2>4. CASE q = p
    BY <1>7, <2>1, <2>3, <2>4
  <2>5. CASE q # p
    BY <2>1, <2>2, <2>5 DEF Has, AtMostOne
  <2> QED
    BY <2>4, <2>5
<1> QED
  BY <1>2, <1>5, <1>6, <1>8

LEMMA RemapControl ==
  ASSUME Control, pte \in [PageIds -> Pte], NEW p \in Pids,
         uvm_proto_remap_rep(p) \/ uvm_proto_chprot_rep(p)
  PROVE  Control' /\ Effected(Head(calls))'
<1> DEFINE rep == Head(toCli[p])
<1>1. /\ toCli[p] # <<>>
      /\ rep.type \in PagerReplies
      /\ toCli' = Take(toCli, p)
      /\ UNCHANGED <<client, cliVars, thrVars>>
  BY DEF uvm_proto_remap_rep, uvm_proto_chprot_rep, uvm_recv, PagerReplies
<1>2. PICK m \in {[type |-> "REMAP_REQ"], [type |-> "CHPROT_REQ"]} :
        toMmu' = Put(toMmu, p, m)
  BY DEF uvm_proto_remap_rep, uvm_proto_chprot_rep
<1>3. m \in RequestMsg /\ m.type \in PagerMessages
  BY DEF RequestMsg, Requests, PagerMessages
<1>4. PICK c \in MmuCall : c = Head(calls)
  BY <1>1, PagerReplyFacts
<1>5. PICK pg \in PageIds : pg = c.page
  BY <1>1, <1>4, PagerReplyFacts
<1>6. pg = <<p, rep.i>> /\ rep = Message(c) /\ c.op \in WaitingCalls
  BY <1>1, <1>4, <1>5, PagerReplyFacts
<1>7. /\ rep.prot = c.prot
      /\ rep.type = "REMAP_REP" <=> c.op = "resident"
      /\ c.op = "resident" => rep.frame = c.frame
  BY <1>6, MessageParts
<1>8. c = Head(calls)' /\ pte[pg] \in Pte
  BY <1>1, <1>4 DEF thrVars
<1>9. Effected(Head(calls))'
  <2>1. CASE uvm_proto_remap_rep(p)
    <3>1. pte' = [pte EXCEPT ![pg] = [frame |-> rep.frame, prot |-> rep.prot]]
      BY <1>6, <2>1 DEF uvm_proto_remap_rep
    <3>2. pte'[pg].frame = rep.frame /\ pte'[pg].prot = rep.prot
      BY <3>1
    <3>3. c.op = "resident"
      BY <1>7, <2>1 DEF uvm_proto_remap_rep, uvm_recv
    <3> QED
      BY <1>5, <1>7, <1>8, <3>2, <3>3 DEF Effected
  <2>2. CASE uvm_proto_chprot_rep(p)
    <3>1. pte' = [pte EXCEPT ![pg].prot = rep.prot]
      BY <1>6, <2>2 DEF uvm_proto_chprot_rep
    <3>2. pte'[pg].prot = rep.prot
      BY <1>8, <3>1 DEF Pte
    <3>3. c.op # "resident"
      BY <1>7, <2>2 DEF uvm_proto_chprot_rep, uvm_recv
    <3> QED
      BY <1>5, <1>7, <1>8, <3>2, <3>3 DEF Effected
  <2> QED
    BY <2>1, <2>2
<1>10. Control'
  BY <1>1, <1>2, <1>3, <1>9, AnswerControl
<1> QED
  BY <1>9, <1>10

LEMMA UvmThreadControl ==
  ASSUME Control, pte \in [PageIds -> Pte], NEW p \in Pids, UvmThread(p)
  PROVE  Control'
<1> USE DEF Control
<1>1. CASE uvm_proto_remap_rep(p) \/ uvm_proto_chprot_rep(p)
  BY <1>1, RemapControl
<1>2. CASE \/ uvm_proto_extend_rep(p) \/ uvm_proto_syslog_rep(p)
           \/ uvm_proto_segv_rep(p) \/ uvm_exit_rep(p)
  <2>1. /\ toCli[p] # <<>>
        /\ toCli' = Take(toCli, p)
        /\ UNCHANGED <<thrVars, client, pte, wanted, npages, toMmu>>
    BY <1>2 DEF uvm_proto_extend_rep, uvm_proto_syslog_rep, uvm_proto_segv_rep,
                uvm_exit_rep, uvm_recv, vars
  <2>2. app' \in {app, Signalled(p), [app EXCEPT ![p] = "gone"]}
    BY <1>2 DEF uvm_proto_extend_rep, uvm_proto_syslog_rep, uvm_proto_segv_rep,
                uvm_exit_rep
  <2>3. \/ app' = app
        \/ app' = [app EXCEPT ![p] = "gone"]
        \/ app[p] = "wait" /\ app' = [app EXCEPT ![p] = "woken"]
    <3>1. \/ Signalled(p) = app
          \/ app[p] = "wait" /\ Signalled(p) = [app EXCEPT ![p] = "woken"]
      BY DEF Signalled
    <3> QED
      BY <2>2, <3>1
  <2>4. result' \in [Pids -> Indices \cup {NULL, Einval}]
    <3>1. CASE result' = [result EXCEPT ![p] = Head(toCli[p]).i]
               /\ Head(toCli[p]).type \in {"EXTEND_REP", "SYSLOG_REP"}
      <4>1. Head(toCli[p]).i \in Indices \cup {NULL, Einval}
        BY <2>1, <3>1, TakeCli, ReplyParts
      <4> QED
        BY <3>1, <4>1 DEF CtlTypes
    <3>2. CASE UNCHANGED result
      BY <3>2 DEF CtlTypes
    <3> QED
      BY <1>2, <3>1, <3>2 DEF uvm_proto_extend_rep, uvm_proto_syslog_rep,
           uvm_proto_segv_rep, uvm_exit_rep, uvm_recv
  <2>5. CtlTypes'
    BY <2>1, <2>3, <2>4 DEF CtlTypes, thrVars
  <2>6. RoomToExtend' /\ ClientOK'
    BY <2>1, <2>3 DEF CtlTypes, RoomToExtend, ClientOK, thrVars
  <2>7. /\ toCli' \in [Pids -> Seq(ReplyMsg)]
        /\ \A q \in Pids : FewerOf(toCli'[q], toCli[q], PagerReplies)
    BY <2>1, TakeCli
  <2>8. \A q \in Pids : FewerOf(toMmu'[q], toMmu[q], PagerMessages)
    BY <2>1, FewerSame
  <2> QED
    BY <2>1, <2>5, <2>6, <2>7, <2>8, OrdinaryControl DEF MessagesOK
<1> QED
  BY <1>1, <1>2 DEF UvmThread

-----------------------------------------------------------------------------
(* mmu_client_thread outside of a fault *)

\* The holder of the locker is the only thread inside a fault.
LEMMA OneServer ==
  ASSUME LockerOK, NEW p \in Pids, thr[p] \in Serving
  PROVE  locker = p /\ \A q \in Pids : thr[q] \in Serving => q = p
BY DEF LockerOK

LEMMA FreeLocker ==
  ASSUME LockerOK, locker = NoPid
  PROVE  calls = <<>> /\ \A q \in Pids : thr[q] \notin Serving
BY MarkersAssumption DEF LockerOK

\* A thread that neither takes nor holds the locker at the end of its step.
LEMMA OutsideControl ==
  ASSUME Control, NEW p \in Pids, thr[p] \notin Serving \cup {"off"},
         NEW x \in {"recv", "peeked", "lock", "reply", "destroy", "done"},
         thr' = [thr EXCEPT ![p] = x], mmu' \in {"up", "aborted", "killed"},
         UNCHANGED <<pte, cliVars, locker, calls>>,
         client' \in [Pids -> {"none", "live", "exiting", "dead"}],
         \A q \in Pids : app[q] \notin {"joining", "gone"} => client'[q] \in {"none", "live"},
         MessagesOK', PeeksOK',
         \A q \in Pids : FewerOf(toMmu'[q], toMmu[q], PagerMessages),
         \A q \in Pids : FewerOf(toCli'[q], toCli[q], PagerReplies)
  PROVE  Control'
<1> USE DEF Control
<1>1. thr'[p] = x /\ \A q \in Pids : q # p => thr'[q] = thr[q]
  BY DEF CtlTypes
<1>2. UNCHANGED <<app, wanted, result, npages>>
  BY DEF cliVars
<1>3. CtlTypes'
  BY <1>2 DEF CtlTypes
<1>4. RoomToExtend'
  BY <1>2 DEF RoomToExtend
<1>5. ClientOK'
  BY <1>1, <1>2 DEF ClientOK
<1>6. /\ \A q \in Pids : thr'[q] \in Serving <=> thr[q] \in Serving
      /\ \A q \in Pids : thr'[q] \in AtAnswer <=> thr[q] \in AtAnswer
  BY <1>1 DEF Serving, AtAnswer
<1>7. LockerOK'
  BY <1>6, LockerKeep
<1>8. TokensOK'
  BY <1>6, TokensKeep
<1> QED
  BY <1>3, <1>4, <1>5, <1>7, <1>8

LEMMA PeekControl ==
  ASSUME Control, NEW p \in Pids, mmu_peek(p)
  PROVE  Control'
<1> USE DEF Control
<1>1. /\ thr[p] = "recv"
      /\ toMmu[p] # <<>>
      /\ Head(toMmu[p]).type \notin PagerMessages
      /\ thr' = [thr EXCEPT ![p] = "peeked"]
      /\ req' = [req EXCEPT ![p] = Head(toMmu[p])]
      /\ UNCHANGED <<client, pte, cliVars, wanted, toMmu, toCli, locker, calls, mmu>>
  BY DEF mmu_peek, vars, cliVars
<1>2. Head(toMmu[p]) \in RequestMsg
  <2>1. toMmu[p] \in Seq(RequestMsg)
    BY DEF MessagesOK
  <2> QED
    BY <1>1, <2>1, TailFacts
<1>3. /\ thr'[p] = "peeked" /\ \A q \in Pids : q # p => thr'[q] = thr[q]
      /\ req'[p] = Head(toMmu[p]) /\ \A q \in Pids : q # p => req'[q] = req[q]
  BY <1>1 DEF CtlTypes, MessagesOK
<1>4. MessagesOK'
  <2>1. req' \in [Pids -> RequestMsg \cup ReplyMsg \cup {NULL}]
    BY <1>1, <1>2 DEF MessagesOK
  <2>2. ASSUME NEW q \in Pids
        PROVE  /\ thr'[q] \in {"peeked", "lock"} =>
                    req'[q] \in RequestMsg /\ req'[q].type \notin PagerMessages
               /\ thr'[q] = "reply" => req'[q] \in ReplyMsg /\ req'[q].type \notin PagerReplies
    <3>1. CASE q = p
      BY <1>1, <1>2, <1>3, <3>1
    <3>2. CASE q # p
      BY <1>3, <3>2 DEF MessagesOK
    <3> QED
      BY <3>1, <3>2
  <2> QED
    BY <1>1, <2>1, <2>2 DEF MessagesOK
<1>5. PeeksOK'
  <2>1. Answer(Head(calls))' = Answer(Head(calls))
    BY <1>1 DEF Answer
  <2>2. ASSUME NEW q \in Pids, thr'[q] = "peeked"
        PROVE  toMmu'[q] # <<>> /\ Head(toMmu'[q]) = req'[q]
    BY <1>1, <1>3, <2>2 DEF PeeksOK
  <2> QED
    BY <1>1, <1>3, <2>1, <2>2 DEF PeeksOK
<1>6. /\ \A q \in Pids : FewerOf(toMmu'[q], toMmu[q], PagerMessages)
      /\ \A q \in Pids : FewerOf(toCli'[q], toCli[q], PagerReplies)
  BY <1>1, FewerSame
<1>7. /\ client' \in [Pids -> {"none", "live", "exiting", "dead"}]
      /\ \A q \in Pids : app[q] \notin {"joining", "gone"} => client'[q] \in {"none", "live"}
      /\ mmu' \in {"up", "aborted", "killed"}
  BY <1>1 DEF CtlTypes, ClientOK
<1>8. thr[p] \notin Serving \cup {"off"}
  BY <1>1 DEF Serving
<1> QED
  BY <1>1, <1>4, <1>5, <1>6, <1>7, <1>8, OutsideControl

\* The first message of a socket is not for two threads at once.
LEMMA NotBothPeek ==
  ASSUME Control, NEW p \in Pids, NEW h \in Pids, thr[p] = "peeked", thr[h] = "answered"
  PROVE  Head(calls).page[1] # p
<1>1. Head(toMmu[p]).type \notin PagerMessages
  BY DEF Control, PeeksOK, MessagesOK
<1>2. Head(toMmu[Head(calls).page[1]]).type \in PagerMessages
  BY DEF Control, PeeksOK, Answer, PagerMessages
<1> QED
  BY <1>1, <1>2

LEMMA RecvControl ==
  ASSUME Control, NEW p \in Pids, mmu_recv(p)
  PROVE  Control'
<1> USE DEF Control
<1>1. /\ thr[p] = "peeked"
      /\ toMmu[p] # <<>>
      /\ thr' = [thr EXCEPT ![p] = "lock"]
      /\ toMmu' = Take(toMmu, p)
      /\ UNCHANGED <<client, pte, cliVars, wanted, toCli, req, locker, calls, mmu>>
  BY DEF mmu_recv, vars, cliVars
<1>2. thr'[p] = "lock" /\ \A q \in Pids : q # p => thr'[q] = thr[q]
  BY <1>1 DEF CtlTypes
<1>3. /\ toMmu' \in [Pids -> Seq(RequestMsg)]
      /\ \A q \in Pids : q # p => toMmu'[q] = toMmu[q]
      /\ \A q \in Pids : FewerOf(toMmu'[q], toMmu[q], PagerMessages)
  BY <1>1, TakeMmu
<1>4. MessagesOK'
  <2>1. ASSUME NEW q \in Pids
        PROVE  /\ thr'[q] \in {"peeked", "lock"} =>
                    req'[q] \in RequestMsg /\ req'[q].type \notin PagerMessages
               /\ thr'[q] = "reply" => req'[q] \in ReplyMsg /\ req'[q].type \notin PagerReplies
    BY <1>1, <1>2 DEF MessagesOK
  <2> QED
    BY <1>1, <1>3, <2>1 DEF MessagesOK
<1>5. PeeksOK'
  <2>1. Answer(Head(calls))' = Answer(Head(calls))
    BY <1>1 DEF Answer
  <2>2. ASSUME NEW h \in Pids, thr'[h] = "answered"
        PROVE  /\ toMmu'[Head(calls).page[1]] # <<>>
               /\ Head(toMmu'[Head(calls).page[1]]).type = Answer(Head(calls))
    <3>1. thr[h] = "answered" /\ h # p
      BY <1>2, <2>2
    <3>2. Head(calls).page[1] # p
      BY <1>1, <3>1, NotBothPeek
    <3>3. Head(calls).page[1] \in Pids
      BY <3>1, HeadOfCalls DEF LockerOK, AtAnswer
    <3> QED
      BY <1>3, <3>1, <3>2, <3>3 DEF PeeksOK
  <2>3. ASSUME NEW q \in Pids, thr'[q] = "peeked"
        PROVE  toMmu'[q] # <<>> /\ Head(toMmu'[q]) = req'[q]
    BY <1>1, <1>2, <1>3, <2>3 DEF PeeksOK
  <2> QED
    BY <1>1, <2>1, <2>2, <2>3 DEF PeeksOK
<1>6. \A q \in Pids : FewerOf(toCli'[q], toCli[q], PagerReplies)
  BY <1>1, FewerSame
<1>7. /\ client' \in [Pids -> {"none", "live", "exiting", "dead"}]
      /\ \A q \in Pids : app[q] \notin {"joining", "gone"} => client'[q] \in {"none", "live"}
      /\ mmu' \in {"up", "aborted", "killed"}
  BY <1>1 DEF CtlTypes, ClientOK
<1>8. thr[p] \notin Serving \cup {"off"}
  BY <1>1 DEF Serving
<1> QED
  BY <1>1, <1>3, <1>4, <1>5, <1>6, <1>7, <1>8, OutsideControl

\* A step of a thread from outside of a fault to outside of it that receives
\* nothing; it may have a reply in its hand afterwards, or send one.
LEMMA QuietControl ==
  ASSUME Control, NEW p \in Pids, thr[p] \in {"recv", "lock", "reply", "destroy"},
         NEW x \in {"recv", "reply", "destroy", "done"},
         thr' = [thr EXCEPT ![p] = x], mmu' \in {"up", "aborted", "killed"},
         UNCHANGED <<pte, cliVars, toMmu, locker, calls>>,
         client' \in [Pids -> {"none", "live", "exiting", "dead"}],
         \A q \in Pids : app[q] \notin {"joining", "gone"} => client'[q] \in {"none", "live"},
         toCli' \in [Pids -> Seq(ReplyMsg)],
         \A q \in Pids : FewerOf(toCli'[q], toCli[q], PagerReplies),
         \/ UNCHANGED req /\ x # "reply"
         \/ \E rep \in ReplyMsg : /\ rep.type \notin PagerReplies
                                  /\ req' = [req EXCEPT ![p] = rep]
  PROVE  Control'
<1> USE DEF Control
<1>1. thr'[p] = x /\ \A q \in Pids : q # p => thr'[q] = thr[q]
  BY DEF CtlTypes
<1>2. UNCHANGED wanted
  BY DEF cliVars
<1>3. /\ req' \in [Pids -> RequestMsg \cup ReplyMsg \cup {NULL}]
      /\ \A q \in Pids : q # p => req'[q] = req[q]
      /\ x = "reply" => req'[p] \in ReplyMsg /\ req'[p].type \notin PagerReplies
  BY DEF MessagesOK
<1>4. MessagesOK'
  <2>1. ASSUME NEW q \in Pids
        PROVE  /\ thr'[q] \in {"peeked", "lock"} =>
                    req'[q] \in RequestMsg /\ req'[q].type \notin PagerMessages
               /\ thr'[q] = "reply" => req'[q] \in ReplyMsg /\ req'[q].type \notin PagerReplies
    <3>1. CASE q = p
      BY <1>1, <1>3, <3>1
    <3>2. CASE q # p
      BY <1>1, <1>3, <3>2 DEF MessagesOK
    <3> QED
      BY <3>1, <3>2
  <2> QED
    BY <1>2, <1>3, <2>1 DEF MessagesOK
<1>5. PeeksOK'
  BY <1>1, <1>3, PeeksKeep
<1>6. \A q \in Pids : FewerOf(toMmu'[q], toMmu[q], PagerMessages)
  BY FewerSame
<1>7. thr[p] \notin Serving \cup {"off"}
  BY DEF Serving
<1> QED
  BY <1>4, <1>5, <1>6, <1>7, OutsideControl

LEMMA EofControl ==
  ASSUME Control, NEW p \in Pids, mmu_eof(p)
  PROVE  Control'
<1>1. /\ thr[p] = "recv"
      /\ thr' = [thr EXCEPT ![p] = "destroy"]
      /\ UNCHANGED <<client, pte, cliVars, toMmu, toCli, req, locker, calls, mmu>>
  BY DEF mmu_eof, vars
<1>2. /\ client' \in [Pids -> {"none", "live", "exiting", "dead"}]
      /\ \A q \in Pids : app[q] \notin {"joining", "gone"} => client'[q] \in {"none", "live"}
      /\ mmu' \in {"up", "aborted", "killed"}
      /\ toCli' \in [Pids -> Seq(ReplyMsg)]
      /\ \A q \in Pids : FewerOf(toCli'[q], toCli[q], PagerReplies)
  BY <1>1, FewerSame DEF Control, CtlTypes, ClientOK, MessagesOK
<1> QED
  BY <1>1, <1>2, QuietControl

\* A request is served and the reply is ready.
LEMMA ServedControl ==
  ASSUME Control, NEW p \in Pids, thr[p] = "lock",
         NEW rep \in ReplyMsg, rep.type \notin PagerReplies, Served(p, rep),
         UNCHANGED pte,
         client' \in [Pids -> {"none", "live", "exiting", "dead"}],
         \A q \in Pids : app[q] \notin {"joining", "gone"} => client'[q] \in {"none", "live"}
  PROVE  Control'
<1>1. /\ thr' = [thr EXCEPT ![p] = "reply"]
      /\ req' = [req EXCEPT ![p] = rep]
      /\ UNCHANGED <<cliVars, toMmu, toCli, locker, calls, mmu>>
  BY DEF Served
<1>2. /\ mmu' \in {"up", "aborted", "killed"}
      /\ toCli' \in [Pids -> Seq(ReplyMsg)]
      /\ \A q \in Pids : FewerOf(toCli'[q], toCli[q], PagerReplies)
  BY <1>1, FewerSame DEF Control, CtlTypes, MessagesOK
<1> QED
  BY <1>1, <1>2, QuietControl

\* pager_create and pager_destroy tell the truth about the client.
LEMMA ClientTruth ==
  ASSUME Control, NEW p \in Pids,
         \/ UNCHANGED client
         \/ client[p] = "none" /\ client' = [client EXCEPT ![p] = "live"]
         \/ client[p] = "exiting" /\ client' = [client EXCEPT ![p] = "dead"]
  PROVE  /\ client' \in [Pids -> {"none", "live", "exiting", "dead"}]
         /\ \A q \in Pids : app[q] \notin {"joining", "gone"} => client'[q] \in {"none", "live"}
BY DEF Control, CtlTypes, ClientOK

LEMMA ServingControl ==
  ASSUME Control, TableTypes, NEW p \in Pids,
         \/ mmu_client_create(p) \/ mmu_client_extend(p)
         \/ mmu_client_syslog(p) \/ mmu_client_exit(p)
  PROVE  Control'
<1>1. /\ thr[p] = "lock"
      /\ UNCHANGED pte
  BY DEF mmu_client_create, mmu_client_extend, mmu_client_syslog, mmu_client_exit,
         TakeLocker, pager_create, pager_destroy, vars
<1>2. \/ UNCHANGED client
      \/ client[p] = "none" /\ client' = [client EXCEPT ![p] = "live"]
      \/ client[p] = "exiting" /\ client' = [client EXCEPT ![p] = "dead"]
  BY DEF mmu_client_create, mmu_client_extend, mmu_client_syslog, mmu_client_exit,
         pager_create, pager_destroy, vars
<1>3. /\ client' \in [Pids -> {"none", "live", "exiting", "dead"}]
      /\ \A q \in Pids : app[q] \notin {"joining", "gone"} => client'[q] \in {"none", "live"}
  BY <1>2, ClientTruth
<1>4. ASSUME NEW rep \in ReplyMsg, rep.type \notin PagerReplies, Served(p, rep)
      PROVE  Control'
  BY <1>1, <1>3, <1>4, ServedControl
<1>5. CASE mmu_client_create(p) \/ mmu_client_exit(p)
  <2>1. PICK rep \in {[type |-> "CREATE_REP"], [type |-> "EXIT_REP"]} : Served(p, rep)
    BY <1>5 DEF mmu_client_create, mmu_client_exit
  <2>2. rep \in ReplyMsg /\ rep.type \notin PagerReplies
    BY DEF ReplyMsg, PagerReplies
  <2> QED
    BY <1>4, <2>1, <2>2
<1>6. CASE mmu_client_extend(p)
  <2>1. PICK n \in {count[p], NULL} :
          /\ Served(p, [type |-> "EXTEND_REP", i |-> n])
          /\ n # NULL => count[p] < MaxPages
    BY <1>6 DEF mmu_client_extend
  <2>2. n \in Indices \cup {NULL}
    BY <2>1, SizesAssumption DEF TableTypes, Indices
  <2>3. /\ [type |-> "EXTEND_REP", i |-> n] \in ReplyMsg
        /\ [type |-> "EXTEND_REP", i |-> n].type \notin PagerReplies
    BY <2>2 DEF ReplyMsg, PagerReplies
  <2> QED
    BY <1>4, <2>1, <2>3
<1>7. CASE mmu_client_syslog(p)
  <2>1. PICK rep \in [type : {"SYSLOG_REP"}, i : {NULL, Einval}] : Served(p, rep)
    BY <1>7 DEF mmu_client_syslog
  <2>2. rep \in ReplyMsg /\ rep.type \notin PagerReplies
    BY DEF ReplyMsg, PagerReplies
  <2> QED
    BY <1>4, <2>1, <2>2
<1> QED
  BY <1>5, <1>6, <1>7

LEMMA DestroyControl ==
  ASSUME Control, NEW p \in Pids, mmu_client_destroy(p)
  PROVE  Control'
<1>1. /\ thr[p] = "destroy"
      /\ thr' = [thr EXCEPT ![p] = "done"]
      /\ client[p] = "exiting"
      /\ client' = [client EXCEPT ![p] = "dead"]
      /\ UNCHANGED <<pte, cliVars, toMmu, toCli, req, locker, calls, mmu>>
  BY DEF mmu_client_destroy, pager_destroy
<1>2. /\ client' \in [Pids -> {"none", "live", "exiting", "dead"}]
      /\ \A q \in Pids : app[q] \notin {"joining", "gone"} => client'[q] \in {"none", "live"}
  BY <1>1, ClientTruth
<1>3. /\ mmu' \in {"up", "aborted", "killed"}
      /\ toCli' \in [Pids -> Seq(ReplyMsg)]
      /\ \A q \in Pids : FewerOf(toCli'[q], toCli[q], PagerReplies)
  BY <1>1, FewerSame DEF Control, CtlTypes, MessagesOK
<1> QED
  BY <1>1, <1>2, <1>3, QuietControl

LEMMA ReplyControl ==
  ASSUME Control, NEW p \in Pids, mmu_reply(p)
  PROVE  Control'
<1>1. /\ mmu = "up"
      /\ thr[p] = "reply"
      /\ UNCHANGED <<client, pte, cliVars, toMmu, req, locker, calls>>
  BY DEF mmu_reply, vars
<1>2. PICK x \in {"recv", "done"} : thr' = [thr EXCEPT ![p] = x]
  BY DEF mmu_reply
<1>3. req[p] \in ReplyMsg /\ req[p].type \notin PagerReplies
  BY <1>1 DEF Control, MessagesOK
<1>4. mmu' \in {"up", "aborted", "killed"}
  BY <1>1 DEF mmu_reply, Send
<1>5. /\ toCli' \in [Pids -> Seq(ReplyMsg)]
      /\ \A q \in Pids : FewerOf(toCli'[q], toCli[q], PagerReplies)
  <2>1. CASE UNCHANGED toCli
    BY <2>1, FewerSame DEF Control, MessagesOK
  <2>2. CASE toCli' = Put(toCli, p, req[p])
    BY <1>3, <2>2, PutCli DEF Control
  <2> QED
    BY <2>1, <2>2 DEF mmu_reply, Send
<1>6. /\ client' \in [Pids -> {"none", "live", "exiting", "dead"}]
      /\ \A q \in Pids : app[q] \notin {"joining", "gone"} => client'[q] \in {"none", "live"}
  BY <1>1, ClientTruth
<1> QED
  BY <1>1, <1>2, <1>4, <1>5, <1>6, QuietControl

-----------------------------------------------------------------------------
(* The calls of a fault *)

FillOf(pg, bt) == IF bt[pages[pg].block_number].used = 1 THEN "disk_read" ELSE "zero_fill"
ResidentCall(pg, f) == [op |-> "resident", page |-> pg, frame |-> f, prot |-> "READ"]

LEMMA LoadCallsShape ==
  ASSUME Tables, NEW pg \in PageIds, Listed(pg), NEW f \in Frames, NEW bt
  PROVE  /\ LoadCalls(pg, f, bt) \in Seq(MmuCall)
         /\ Len(LoadCalls(pg, f, bt)) = 2
         /\ LoadCalls(pg, f, bt)[1] = Transfer(FillOf(pg, bt), pg, f)
         /\ LoadCalls(pg, f, bt)[2] = ResidentCall(pg, f)
<1>1. PICK x : x = Transfer(FillOf(pg, bt), pg, f)
  OBVIOUS
<1>2. PICK y : y = ResidentCall(pg, f)
  OBVIOUS
<1>3. x \in MmuCall
  <2>1. pages[pg].block_number \in Blocks
    BY ListedFacts
  <2>2. FillOf(pg, bt) \in Transfers
    BY DEF FillOf, Transfers
  <2> QED
    BY <1>1, <2>1, <2>2 DEF Transfer, MmuCall
<1>4. y \in MmuCall
  BY <1>2 DEF ResidentCall, MmuCall, Prots
<1>5. LoadCalls(pg, f, bt) = <<x, y>>
  BY <1>1, <1>2 DEF LoadCalls, FillOf, ResidentCall
<1> QED
  BY <1>1, <1>2, <1>3, <1>4, <1>5

\* s is a list of calls of swap_out_page(v) and then of those for page pg: how
\* many there are of each kind, and in which order.
CallsOfEvict(s, pg, v, bt) ==
  \E n \in Nat, w \in {0, 1} :
    /\ w = 1 <=> WriteBack(v)
    /\ Len(s) = n + w + 3
    /\ \A j \in 1..n : \E f \in Frames : s[j] = Chprot(frames[f].page, "NONE")
    /\ s[n + 1] = Nonresident(frames[v].page)
    /\ w = 1 => s[n + 2] = Transfer("disk_write", frames[v].page, v)
    /\ s[n + w + 2] = Transfer(FillOf(pg, bt), pg, v)
    /\ s[n + w + 3] = ResidentCall(pg, v)

LEMMA EvictCallsShape ==
  ASSUME Tables, NEW v \in Frames, \A f \in Frames : frames[f].pid # NoPid,
         NEW pg \in PageIds, Listed(pg), NEW bt
  PROVE  /\ SwapOutCalls(v) \o LoadCalls(pg, v, bt) \in Seq(MmuCall)
         /\ CallsOfEvict(SwapOutCalls(v) \o LoadCalls(pg, v, bt), pg, v, bt)
<1>0. PICK old \in PageIds : old = frames[v].page /\ Listed(old)
  BY DEF Tables, FrameOwnership
<1> DEFINE A == IF v = 0 THEN [j \in 1..NFrames |-> Chprot(frames[j - 1].page, "NONE")]
                ELSE <<>>
           W == IF WriteBack(v) THEN <<Transfer("disk_write", old, v)>> ELSE <<>>
           L == LoadCalls(pg, v, bt)
           s == SwapOutCalls(v) \o L
<1>1. /\ L \in Seq(MmuCall) /\ Len(L) = 2
      /\ L[1] = Transfer(FillOf(pg, bt), pg, v) /\ L[2] = ResidentCall(pg, v)
  BY LoadCallsShape
<1>2. PICK x : x = Nonresident(old)
  OBVIOUS
<1>3. x \in MmuCall
  BY <1>2 DEF Nonresident, MmuCall, Prots
<1>4. A \in Seq(MmuCall) /\ Len(A) \in Nat
      /\ \A j \in 1..Len(A) : \E f \in Frames : A[j] = Chprot(frames[f].page, "NONE")
  <2>1. CASE v = 0
    <3>1. ASSUME NEW j \in 1..NFrames
          PROVE  j - 1 \in Frames /\ Chprot(frames[j - 1].page, "NONE") \in MmuCall
      <4>1. j - 1 \in Frames
        BY SizesAssumption DEF Frames
      <4>2. frames[j - 1].page \in PageIds
        BY <4>1 DEF Tables, FrameOwnership
      <4> QED
        BY <4>1, <4>2 DEF Chprot, MmuCall, Prots
    <3>2. A = [j \in 1..NFrames |-> Chprot(frames[j - 1].page, "NONE")]
      BY <2>1
    <3>3. A \in [1..NFrames -> MmuCall] /\ NFrames \in Nat
      BY <3>1, <3>2, SizesAssumption
    <3>4. A \in Seq(MmuCall) /\ Len(A) = NFrames
      BY <3>3
    <3> QED
      BY <3>1, <3>2, <3>3, <3>4
  <2>2. CASE v # 0
    BY <2>2, EmptySeq
  <2> QED
    BY <2>1, <2>2
<1>5. PICK w \in {0, 1} : w = 1 <=> WriteBack(v)
  OBVIOUS
<1>6. /\ W \in Seq(MmuCall) /\ Len(W) = w
      /\ w = 1 => W[1] = Transfer("disk_write", old, v)
  <2>1. PICK t : t = Transfer("disk_write", old, v)
    OBVIOUS
  <2>3. t \in MmuCall
    BY <1>0, <2>1, ListedFacts DEF Transfer, MmuCall, Transfers
  <2>4. CASE WriteBack(v)
    BY <1>5, <2>1, <2>3, <2>4
  <2>5. CASE ~ WriteBack(v)
    BY <1>5, <2>5, EmptySeq
  <2> QED
    BY <2>4, <2>5
<1>7. SwapOutCalls(v) = A \o <<x>> \o W
  BY <1>0, <1>2 DEF SwapOutCalls
<1> HIDE DEF A, W, L
<1>8. PICK n \in Nat : n = Len(A)
  BY <1>4
<1>9. /\ <<x>> \in Seq(MmuCall) /\ Len(<<x>>) = 1 /\ <<x>>[1] = x
  BY <1>3
<1>10. PICK b : b = A \o <<x>>
  OBVIOUS
<1>11. /\ b \in Seq(MmuCall) /\ Len(b) = n + 1
       /\ \A j \in 1..n : b[j] = A[j]
       /\ b[n + 1] = x
  BY <1>4, <1>8, <1>9, <1>10, ConcatProperties
<1>12. PICK c : c = b \o W
  OBVIOUS
<1>13. /\ c \in Seq(MmuCall) /\ Len(c) = n + 1 + w
       /\ \A j \in 1..(n + 1) : c[j] = b[j]
       /\ w = 1 => c[n + 2] = W[1]
  <2>1. /\ c \in Seq(MmuCall) /\ Len(c) = (n + 1) + w
        /\ \A j \in 1..((n + 1) + w) : c[j] = IF j <= n + 1 THEN b[j] ELSE W[j - (n + 1)]
    BY <1>6, <1>11, <1>12, ConcatProperties
  <2> QED
    BY <2>1
<1>14. /\ s \in Seq(MmuCall) /\ Len(s) = n + w + 3
       /\ \A j \in 1..(n + 1 + w) : s[j] = c[j]
       /\ s[n + w + 2] = L[1] /\ s[n + w + 3] = L[2]
  <2>0. PICK d \in Seq(MmuCall) : d = L
    BY <1>1
  <2>1. PICK t : t = c \o d
    OBVIOUS
  <2>2. t = s
    BY <1>7, <1>10, <1>12, <2>0, <2>1
  <2> HIDE DEF s
  <2>3. c \in Seq(MmuCall)
    BY <1>13
  <2>4. /\ t \in Seq(MmuCall) /\ Len(t) = Len(c) + Len(d)
        /\ \A j \in 1..(Len(c) + Len(d)) : t[j] = IF j <= Len(c) THEN c[j] ELSE d[j - Len(c)]
    BY <2>1, <2>3, ConcatProperties
  <2>5. PICK m \in Nat : m = n + 1 + w
    OBVIOUS
  <2>6. Len(c) = m /\ Len(d) = 2
    BY <1>1, <1>13, <2>0, <2>5
  <2>7. \A j \in 1..(m + 2) : t[j] = IF j <= m THEN c[j] ELSE d[j - m]
    BY <2>4, <2>6
  <2>8. t[m + 1] = L[1] /\ t[m + 2] = L[2]
    BY <2>0, <2>7
  <2> QED
    BY <2>2, <2>4, <2>5, <2>6, <2>7, <2>8
<1> HIDE DEF s
<1>15. \A j \in 1..n : \E f \in Frames : s[j] = Chprot(frames[f].page, "NONE")
  <2> SUFFICES ASSUME NEW j \in 1..n
               PROVE  \E f \in Frames : s[j] = Chprot(frames[f].page, "NONE")
    OBVIOUS
  <2>1. s[j] = A[j]
    BY <1>11, <1>13, <1>14
  <2> QED
    BY <1>4, <1>8, <2>1
<1>16. /\ s[n + 1] = Nonresident(old)
       /\ w = 1 => s[n + 2] = Transfer("disk_write", old, v)
  BY <1>2, <1>6, <1>11, <1>13, <1>14
<1>17. /\ s[n + w + 2] = Transfer(FillOf(pg, bt), pg, v)
       /\ s[n + w + 3] = ResidentCall(pg, v)
  BY <1>1, <1>14
<1>18. CallsOfEvict(s, pg, v, bt)
  BY <1>0, <1>5, <1>14, <1>15, <1>16, <1>17 DEF CallsOfEvict
<1> QED
  BY <1>14, <1>18 DEF s, L

-----------------------------------------------------------------------------
(* mmu_client_thread in a fault *)

\* A step of a thread that holds or takes the locker.
LEMMA InsideControl ==
  ASSUME Control, NEW p \in Pids, thr[p] \in Serving \cup {"lock"},
         NEW x \in Serving \cup {"lock"}, thr' = [thr EXCEPT ![p] = x],
         mmu' \in {"up", "aborted", "killed"},
         UNCHANGED <<client, cliVars, req>>,
         toMmu' \in [Pids -> Seq(RequestMsg)], toCli' \in [Pids -> Seq(ReplyMsg)],
         calls' \in Seq(MmuCall),
         x = "lock" => thr[p] = "lock",
         LockerOK', PeeksOK', TokensOK'
  PROVE  Control'
<1> USE DEF Control
<1>1. thr'[p] = x /\ \A q \in Pids : q # p => thr'[q] = thr[q]
  BY DEF CtlTypes
<1>2. UNCHANGED <<app, wanted, result, npages>>
  BY DEF cliVars
<1>3. CtlTypes'
  BY <1>2 DEF CtlTypes, Serving
<1>4. RoomToExtend'
  BY <1>2 DEF RoomToExtend
<1>5. ClientOK'
  BY <1>1, <1>2 DEF ClientOK, Serving
<1>6. MessagesOK'
  <2>1. ASSUME NEW q \in Pids
        PROVE  /\ thr'[q] \in {"peeked", "lock"} =>
                    req'[q] \in RequestMsg /\ req'[q].type \notin PagerMessages
               /\ thr'[q] = "reply" => req'[q] \in ReplyMsg /\ req'[q].type \notin PagerReplies
    <3>1. CASE q = p
      BY <1>1, <3>1 DEF MessagesOK, Serving
    <3>2. CASE q # p
      BY <1>1, <3>2 DEF MessagesOK
    <3> QED
      BY <3>1, <3>2
  <2> QED
    BY <1>2, <2>1 DEF MessagesOK
<1> QED
  BY <1>3, <1>4, <1>5, <1>6

LEMMA SegvUnlistedControl ==
  ASSUME Control, NEW p \in Pids,
         mmu_client_segv_unlisted(p) \/ mmu_client_syslog_wild(p)
  PROVE  Control'
<1> USE DEF Control
<1>1. /\ thr[p] = "lock"
      /\ mmu' = "killed"
      /\ UNCHANGED <<client, pte, cliVars, toMmu, toCli, thr, req, locker, calls>>
  BY DEF mmu_client_segv_unlisted, mmu_client_syslog_wild, TakeLocker, vars
<1>2. thr' = [thr EXCEPT ![p] = "lock"]
  BY <1>1 DEF CtlTypes
<1>3. LockerOK' /\ PeeksOK'
  BY <1>1, LockerKeep, PeeksKeep
<1>4. TokensOK'
  BY <1>1, FewerSame, TokensKeep
<1> QED
  BY <1>1, <1>2, <1>3, <1>4, InsideControl DEF MessagesOK

LEMMA SegvControl ==
  ASSUME Control, Tables, NEW p \in Pids, mmu_client_segv(p)
  PROVE  Control'
<1> USE DEF Control
<1> DEFINE pg == <<p, req[p].i>>
<1>1. /\ thr[p] = "lock"
      /\ locker = NoPid
      /\ req[p].type = "SEGV_REQ"
      /\ Listed(pg)
      /\ locker' = p
      /\ thr' = [thr EXCEPT ![p] = "calls"]
      /\ UNCHANGED <<pte, client, cliVars, toMmu, toCli, req, mmu>>
  BY DEF mmu_client_segv, TakeLocker
<1>2. pg \in PageIds
  <2>1. req[p].i \in Indices
    BY <1>1, RequestParts DEF MessagesOK
  <2> QED
    BY <2>1, PageIdOf, SizesAssumption DEF Indices
<1>3. calls' \in Seq(MmuCall)
  <2>1. CASE calls' = <<Chprot(pg, "RW")>>
    <3>1. Chprot(pg, "RW") \in MmuCall
      BY <1>2 DEF Chprot, MmuCall, Prots
    <3> QED
      BY <2>1, <3>1
  <2>2. CASE \E f \in Frames : calls' = LoadCalls(pg, f, blocks)
    BY <1>1, <1>2, <2>2, LoadCallsShape
  <2>3. ASSUME NEW k \in 0..NFrames, EvictTables(pg, k),
               calls' = SwapOutCalls(HandAt(k)) \o LoadCalls(pg, HandAt(k), blocks')
        PROVE  calls' \in Seq(MmuCall)
    <3>1. \A f \in Frames : frames[f].pid # NoPid
      BY <2>3 DEF EvictTables
    <3>2. PICK v \in Frames : v = HandAt(k)
      BY <1>1, <1>2, <2>3, VictimFacts
    <3>3. SwapOutCalls(v) \o LoadCalls(pg, v, blocks') \in Seq(MmuCall)
      BY <1>1, <1>2, <3>1, EvictCallsShape
    <3> QED
      BY <2>3, <3>2, <3>3
  <2> QED
    BY <2>1, <2>2, <2>3 DEF mmu_client_segv
<1>4. \A q \in Pids : thr[q] \notin Serving
  BY <1>1, FreeLocker
<1>5. thr'[p] = "calls" /\ \A q \in Pids : q # p => thr'[q] = thr[q]
  BY <1>1 DEF CtlTypes
<1>6. \A q \in Pids : thr'[q] \notin AtAnswer
  BY <1>4, <1>5 DEF AtAnswer, Serving
<1>7. LockerOK'
  BY <1>1, <1>4, <1>5, <1>6, MarkersAssumption DEF LockerOK, Serving
<1>8. PeeksOK'
  BY <1>1, <1>5, <1>6 DEF PeeksOK, AtAnswer
<1>9. TokensOK'
  <2>1. NoTokens
    BY <1>4, NobodyWaits DEF AtAnswer, Serving
  <2>2. NoTokens'
    BY <1>1, <2>1, FewerSame, NoTokensKeep
  <2>3. NoTokens' => TokensOK'
    BY NoTokensOK, PTL
  <2> QED
    BY <2>2, <2>3
<1>10. "calls" \in Serving
  BY DEF Serving
<1> QED
  BY <1>1, <1>3, <1>7, <1>8, <1>9, <1>10, InsideControl DEF MessagesOK, CtlTypes

\* The thread that makes MMU calls is alone and nobody waits for an answer.
LEMMA AtCallFacts ==
  ASSUME Control, NEW p \in Pids, thr[p] = "calls"
  PROVE  /\ locker = p
         /\ \A q \in Pids : q # p => thr[q] \notin Serving
         /\ \A q \in Pids : thr[q] \notin AtAnswer
         /\ NoTokens
<1> USE DEF Control
<1>1. locker = p /\ \A q \in Pids : thr[q] \in Serving => q = p
  BY OneServer DEF Serving
<1>2. \A q \in Pids : thr[q] \notin AtAnswer
  BY <1>1 DEF AtAnswer, Serving
<1>3. NoTokens
  BY <1>2, NobodyWaits
<1> QED
  BY <1>1, <1>2, <1>3

\* The next call of the list is made and does not need an answer.
LEMMA NextCallControl ==
  ASSUME Control, NEW p \in Pids, thr[p] = "calls", calls # <<>>, calls' = Tail(calls),
         UNCHANGED <<client, cliVars, toMmu, toCli, thr, req, locker, mmu>>
  PROVE  Control'
<1> USE DEF Control
<1>1. /\ locker = p
      /\ \A q \in Pids : thr[q] \notin AtAnswer
      /\ NoTokens
  BY AtCallFacts
<1>2. calls' \in Seq(MmuCall)
  BY HeadOfCalls
<1>3. LockerOK'
  BY <1>1, MarkersAssumption DEF LockerOK
<1>4. PeeksOK'
  BY <1>1 DEF PeeksOK, AtAnswer
<1>5. TokensOK'
  <2>1. NoTokens'
    BY <1>1, FewerSame, NoTokensKeep
  <2>2. NoTokens' => TokensOK'
    BY NoTokensOK, PTL
  <2> QED
    BY <2>1, <2>2
<1>6. thr' = [thr EXCEPT ![p] = "calls"] /\ "calls" \in Serving
  BY DEF CtlTypes, Serving
<1> QED
  BY <1>2, <1>3, <1>4, <1>5, <1>6, InsideControl DEF MessagesOK, CtlTypes

LEMMA TransferControl ==
  ASSUME Control, NEW p \in Pids, mmu_disk_write(p) \/ mmu_fill(p)
  PROVE  Control'
<1>1. /\ thr[p] = "calls"
      /\ calls # <<>>
      /\ calls' = Tail(calls)
      /\ UNCHANGED <<client, cliVars, toMmu, toCli, thr, req, locker, mmu>>
  BY DEF mmu_disk_write, mmu_fill, AtCall
<1> QED
  BY <1>1, NextCallControl

LEMMA FaultDoneControl ==
  ASSUME Control, NEW p \in Pids, mmu_fault_done(p)
  PROVE  Control'
<1> USE DEF Control
<1> DEFINE rep == [type |-> "SEGV_REP"]
<1>1. /\ thr[p] = "calls"
      /\ calls = <<>>
      /\ locker' = NoPid
      /\ thr' = [thr EXCEPT ![p] = "reply"]
      /\ req' = [req EXCEPT ![p] = rep]
      /\ UNCHANGED <<client, pte, cliVars, toMmu, toCli, calls, mmu>>
  BY DEF mmu_fault_done, vars
<1>2. /\ locker = p
      /\ \A q \in Pids : q # p => thr[q] \notin Serving
      /\ \A q \in Pids : thr[q] \notin AtAnswer
      /\ NoTokens
  BY <1>1, AtCallFacts
<1>3. rep \in ReplyMsg /\ rep.type \notin PagerReplies
  BY DEF ReplyMsg, PagerReplies
<1> HIDE DEF rep
<1>4. /\ thr'[p] = "reply" /\ \A q \in Pids : q # p => thr'[q] = thr[q]
      /\ req'[p] = rep /\ \A q \in Pids : q # p => req'[q] = req[q]
  BY <1>1 DEF CtlTypes, MessagesOK
<1>5. \A q \in Pids : thr'[q] \notin Serving
  BY <1>2, <1>4 DEF Serving
<1>6. UNCHANGED <<app, wanted, result, npages>>
  BY <1>1 DEF cliVars
<1>7. CtlTypes'
  BY <1>1, <1>6 DEF CtlTypes
<1>8. RoomToExtend'
  BY <1>6 DEF RoomToExtend
<1>9. ClientOK'
  BY <1>1, <1>4, <1>6 DEF ClientOK
<1>10. LockerOK'
  BY <1>1, <1>5, MarkersAssumption DEF LockerOK, AtAnswer, Serving
<1>11. PeeksOK'
  BY <1>1, <1>4, <1>5 DEF PeeksOK, Serving
<1>12. TokensOK'
  <2>1. NoTokens'
    BY <1>1, <1>2, FewerSame, NoTokensKeep
  <2>2. NoTokens' => TokensOK'
    BY NoTokensOK, PTL
  <2> QED
    BY <2>1, <2>2
<1>13. MessagesOK'
  <2>1. req' \in [Pids -> RequestMsg \cup ReplyMsg \cup {NULL}]
    BY <1>1, <1>3 DEF MessagesOK
  <2>2. ASSUME NEW q \in Pids
        PROVE  /\ thr'[q] \in {"peeked", "lock"} =>
                    req'[q] \in RequestMsg /\ req'[q].type \notin PagerMessages
               /\ thr'[q] = "reply" => req'[q] \in ReplyMsg /\ req'[q].type \notin PagerReplies
    <3>1. CASE q = p
      BY <1>3, <1>4, <3>1
    <3>2. CASE q # p
      BY <1>4, <3>2 DEF MessagesOK
    <3> QED
      BY <3>1, <3>2
  <2> QED
    BY <1>1, <1>6, <2>1, <2>2 DEF MessagesOK
<1> QED
  BY <1>7, <1>8, <1>9, <1>10, <1>11, <1>12, <1>13

LEMMA CallSendControl ==
  ASSUME Control, NEW p \in Pids, mmu_call_send(p)
  PROVE  Control'
<1> USE DEF Control
<1>1. PICK c \in MmuCall : c = Head(calls)
  BY HeadOfCalls DEF mmu_call_send, AtCall
<1>2. PICK q \in Pids : q = c.page[1]
  BY <1>1, CallParts
<1>3. /\ thr[p] = "calls"
      /\ calls # <<>>
      /\ c.op \in WaitingCalls
      /\ thr' = [thr EXCEPT ![p] = "awaiting"]
      /\ UNCHANGED <<client, pte, cliVars, toMmu, req, locker, calls>>
  BY <1>1 DEF mmu_call_send, AtCall, WaitingCalls, vars
<1>4. /\ locker = p
      /\ \A h \in Pids : h # p => thr[h] \notin Serving
      /\ \A h \in Pids : thr[h] \notin AtAnswer
      /\ NoTokens
  BY <1>3, AtCallFacts
<1>5. \/ UNCHANGED toCli
      \/ toCli' = Put(toCli, q, Message(c))
  BY <1>1, <1>2 DEF mmu_call_send, Send
<1>6. mmu' \in {"up", "aborted", "killed"}
  BY DEF mmu_call_send, Send, CtlTypes
<1>7. Message(c) \in ReplyMsg /\ Message(c).type \in PagerReplies
  BY <1>3, MessageParts
<1>8. thr'[p] = "awaiting" /\ \A h \in Pids : h # p => thr'[h] = thr[h]
  BY <1>3 DEF CtlTypes
<1>9. LockerOK'
  BY <1>1, <1>3, <1>4, <1>8, MarkersAssumption DEF LockerOK, Serving, AtAnswer
<1>10. PeeksOK'
  BY <1>3, <1>8, PeeksKeep
<1>11. /\ toCli' \in [Pids -> Seq(ReplyMsg)]
       /\ \A h \in Pids : h # q => toCli'[h] = toCli[h]
       /\ toCli'[q] = toCli[q] \/ toCli'[q] = Append(toCli[q], Message(c))
  BY <1>5, <1>7, PutCli DEF MessagesOK
<1>12. TokensOK'
  <2>1. Sent(q)'
    BY <1>1, <1>2, <1>3, <1>8 DEF Sent, AtAnswer
  <2>2. Message(Head(calls))' = Message(c)
    BY <1>1, <1>3 DEF Message
  <2>3. \A h \in Pids : ~ Has(toMmu'[h], PagerMessages)
    BY <1>3, <1>4 DEF NoTokens
  <2>4. \A h \in Pids : h # q => ~ Has(toCli'[h], PagerReplies)
    BY <1>4, <1>11 DEF NoTokens
  <2>5. /\ AtMostOne(toCli'[q], PagerReplies)
        /\ \A j \in DOMAIN toCli'[q] : toCli'[q][j].type \in PagerReplies =>
             toCli'[q][j] = Message(c)
    <3>1. toCli[q] \in Seq(ReplyMsg) /\ ~ Has(toCli[q], PagerReplies)
      BY <1>4 DEF MessagesOK, NoTokens
    <3>2. CASE toCli'[q] = toCli[q]
      BY <3>1, <3>2 DEF Has, AtMostOne
    <3>3. CASE toCli'[q] = Append(toCli[q], Message(c))
      BY <1>7, <3>1, <3>3, PutTheOne
    <3> QED
      BY <1>11, <3>2, <3>3
  <2> SUFFICES ASSUME NEW h \in Pids
      PROVE  /\ \A j \in DOMAIN toCli'[h] : toCli'[h][j].type \in PagerReplies =>
                  Sent(h)' /\ toCli'[h][j] = Message(Head(calls))'
             /\ AtMostOne(toCli'[h], PagerReplies)
             /\ ~ Has(toMmu'[h], PagerMessages)
    BY DEF TokensOK, Has, AtMostOne
  <2>6. CASE h = q
    BY <2>1, <2>2, <2>3, <2>5, <2>6
  <2>7. CASE h # q
    BY <2>3, <2>4, <2>7 DEF Has, AtMostOne
  <2> QED
    BY <2>6, <2>7
<1>13. "awaiting" \in Serving /\ thr[p] \in Serving
  BY <1>3 DEF Serving
<1> QED
  BY <1>3, <1>6, <1>9, <1>10, <1>11, <1>12, <1>13, InsideControl DEF MessagesOK

LEMMA CallPeekControl ==
  ASSUME Control, NEW p \in Pids, mmu_call_peek(p)
  PROVE  Control'
<1> USE DEF Control
<1>1. /\ thr[p] = "awaiting"
      /\ toMmu[Head(calls).page[1]] # <<>>
      /\ Head(toMmu[Head(calls).page[1]]).type = Answer(Head(calls))
      /\ thr' = [thr EXCEPT ![p] = "answered"]
      /\ UNCHANGED <<client, pte, cliVars, toMmu, toCli, req, locker, calls, mmu>>
  BY DEF mmu_call_peek, vars
<1>2. thr'[p] = "answered" /\ \A q \in Pids : q # p => thr'[q] = thr[q]
  BY <1>1 DEF CtlTypes
<1>3. LockerOK'
  <2>1. /\ \A q \in Pids : thr'[q] \in Serving <=> thr[q] \in Serving
        /\ \A q \in Pids : thr'[q] \in AtAnswer => thr[q] \in AtAnswer
    BY <1>1, <1>2 DEF Serving, AtAnswer
  <2> QED
    BY <1>1, <2>1, LockerKeep
<1>4. PeeksOK'
  <2>1. Answer(Head(calls))' = Answer(Head(calls))
    BY <1>1 DEF Answer
  <2>2. ASSUME NEW q \in Pids, thr'[q] = "peeked"
        PROVE  toMmu'[q] # <<>> /\ Head(toMmu'[q]) = req'[q]
    BY <1>1, <1>2, <2>2 DEF PeeksOK
  <2>3. ASSUME NEW h \in Pids, thr'[h] = "answered"
        PROVE  /\ toMmu'[Head(calls).page[1]] # <<>>
               /\ Head(toMmu'[Head(calls).page[1]]).type = Answer(Head(calls))
    BY <1>1
  <2> QED
    BY <1>1, <2>1, <2>2, <2>3 DEF PeeksOK
<1>5. TokensOK'
  <2>1. \A q \in Pids : thr[q] \in AtAnswer => thr'[q] \in AtAnswer
    BY <1>2 DEF AtAnswer
  <2> QED
    BY <1>1, <2>1, FewerSame, TokensKeep
<1>6. "answered" \in Serving /\ thr[p] \in Serving
  BY <1>1 DEF Serving
<1> QED
  BY <1>1, <1>3, <1>4, <1>5, <1>6, InsideControl DEF MessagesOK, CtlTypes

\* The answer that is received is the only message of its kind on the sockets.
LEMMA AnswerFacts ==
  ASSUME Control, NEW p \in Pids, thr[p] = "answered"
  PROVE  LET q == Head(calls).page[1] IN
         /\ calls # <<>>
         /\ Head(calls) \in MmuCall
         /\ Head(calls).op \in WaitingCalls
         /\ q \in Pids
         /\ toMmu[q] # <<>>
         /\ Effected(Head(calls))
         /\ ~ Has(Tail(toMmu[q]), PagerMessages)
         /\ \A h \in Pids : ~ Has(toCli[h], PagerReplies)
         /\ \A h \in Pids : h # q => ~ Has(toMmu[h], PagerMessages)
<1> USE DEF Control
<1>1. calls # <<>> /\ Head(calls).op \in WaitingCalls
  BY DEF LockerOK, AtAnswer
<1>2. Head(calls) \in MmuCall
  BY <1>1, HeadOfCalls
<1>3. PICK q \in Pids : q = Head(calls).page[1]
  BY <1>1, HeadOfCalls
<1>4. /\ toMmu[q] # <<>>
      /\ Head(toMmu[q]).type \in PagerMessages
  BY <1>3 DEF PeeksOK, Answer, PagerMessages
<1>5. toMmu[q] \in Seq(RequestMsg)
  BY DEF MessagesOK
<1>6. 1 \in DOMAIN toMmu[q] /\ Head(toMmu[q]) = toMmu[q][1]
  BY <1>4, <1>5, TailFacts
<1>7. Effected(Head(calls))
  BY <1>4, <1>6 DEF TokensOK
<1>8. ~ Has(Tail(toMmu[q]), PagerMessages)
  BY <1>4, <1>5, TakeTheOne DEF TokensOK
<1>9. ~ Has(toCli[q], PagerReplies)
  BY <1>4, <1>6 DEF TokensOK, Has
<1>10. ASSUME NEW h \in Pids, h # q
       PROVE  ~ Has(toCli[h], PagerReplies) /\ ~ Has(toMmu[h], PagerMessages)
  BY <1>3, <1>10 DEF TokensOK, Sent, Has
<1> QED
  BY <1>1, <1>2, <1>3, <1>4, <1>7, <1>8, <1>9, <1>10

LEMMA CallRecvControl ==
  ASSUME Control, NEW p \in Pids, mmu_call_recv(p)
  PROVE  Control'
<1> USE DEF Control
<1>1. PICK q : q = Head(calls).page[1]
  OBVIOUS
<1>2. /\ thr[p] = "answered"
      /\ toMmu[q] # <<>>
      /\ toMmu' = Take(toMmu, q)
      /\ thr' = [thr EXCEPT ![p] = "calls"]
      /\ calls' = Tail(calls)
      /\ UNCHANGED <<client, pte, cliVars, toCli, req, locker, mmu>>
  BY <1>1 DEF mmu_call_recv, vars
<1>3. /\ calls # <<>>
      /\ q \in Pids
      /\ ~ Has(Tail(toMmu[q]), PagerMessages)
      /\ \A h \in Pids : ~ Has(toCli[h], PagerReplies)
      /\ \A h \in Pids : h # q => ~ Has(toMmu[h], PagerMessages)
  BY <1>1, <1>2, AnswerFacts
<1>4. /\ toMmu' \in [Pids -> Seq(RequestMsg)]
      /\ toMmu'[q] = Tail(toMmu[q])
      /\ \A h \in Pids : h # q => toMmu'[h] = toMmu[h]
  BY <1>2, <1>3, TakeMmu
<1>5. thr'[p] = "calls" /\ \A h \in Pids : h # p => thr'[h] = thr[h]
  BY <1>2 DEF CtlTypes
<1>6. locker = p /\ \A h \in Pids : h # p => thr[h] \notin Serving
  BY <1>2, OneServer DEF Serving
<1>7. \A h \in Pids : thr'[h] \notin AtAnswer
  BY <1>5, <1>6 DEF AtAnswer, Serving
<1>8. LockerOK'
  BY <1>2, <1>5, <1>6, <1>7, MarkersAssumption DEF LockerOK, Serving
<1>9. PeeksOK'
  <2>1. ASSUME NEW h \in Pids, thr'[h] = "peeked"
        PROVE  toMmu'[h] # <<>> /\ Head(toMmu'[h]) = req'[h]
    <3>1. thr[h] = "peeked"
      BY <1>5, <2>1
    <3>2. h # q
      BY <1>1, <1>2, <3>1, NotBothPeek
    <3> QED
      BY <1>2, <1>4, <3>1, <3>2 DEF PeeksOK
  <2> QED
    BY <1>7, <2>1 DEF PeeksOK, AtAnswer
<1>10. TokensOK'
  <2>1. NoTokens'
    BY <1>2, <1>3, <1>4 DEF NoTokens
  <2>2. NoTokens' => TokensOK'
    BY NoTokensOK, PTL
  <2> QED
    BY <2>1, <2>2
<1>11. calls' \in Seq(MmuCall)
  BY <1>2, <1>3, HeadOfCalls
<1>12. "calls" \in Serving /\ thr[p] \in Serving
  BY <1>2 DEF Serving
<1> QED
  BY <1>2, <1>4, <1>8, <1>9, <1>10, <1>11, <1>12, InsideControl DEF MessagesOK, CtlTypes

LEMMA CallEofControl ==
  ASSUME Control, NEW p \in Pids, mmu_call_eof(p)
  PROVE  Control'
<1> USE DEF Control
<1>1. /\ thr[p] = "awaiting"
      /\ thr' = [thr EXCEPT ![p] = "stuck"]
      /\ UNCHANGED <<client, pte, cliVars, toMmu, toCli, req, locker, calls, mmu>>
  BY DEF mmu_call_eof, vars
<1>2. thr'[p] = "stuck" /\ \A q \in Pids : q # p => thr'[q] = thr[q]
  BY <1>1 DEF CtlTypes
<1>3. LockerOK'
  <2>1. /\ \A q \in Pids : thr'[q] \in Serving <=> thr[q] \in Serving
        /\ \A q \in Pids : thr'[q] \in AtAnswer => thr[q] \in AtAnswer
    BY <1>1, <1>2 DEF Serving, AtAnswer
  <2> QED
    BY <1>1, <2>1, LockerKeep
<1>4. PeeksOK'
  BY <1>1, <1>2, PeeksKeep
<1>5. TokensOK'
  <2>1. \A q \in Pids : thr[q] \in AtAnswer => thr'[q] \in AtAnswer
    BY <1>2 DEF AtAnswer
  <2> QED
    BY <1>1, <2>1, FewerSame, TokensKeep
<1>6. "stuck" \in Serving /\ thr[p] \in Serving
  BY <1>1 DEF Serving
<1> QED
  BY <1>1, <1>3, <1>4, <1>5, <1>6, InsideControl DEF MessagesOK, CtlTypes

LEMMA ClientThreadControl ==
  ASSUME Control, Tables, NEW p \in Pids, ClientThread(p)
  PROVE  Control'
<1> USE DEF Tables
<1>1. CASE mmu_peek(p) \/ mmu_recv(p) \/ mmu_eof(p) \/ mmu_client_destroy(p) \/ mmu_reply(p)
  BY <1>1, PeekControl, RecvControl, EofControl, DestroyControl, ReplyControl
<1>2. CASE \/ mmu_client_create(p) \/ mmu_client_extend(p)
           \/ mmu_client_syslog(p) \/ mmu_client_exit(p)
  BY <1>2, ServingControl
<1>3. CASE mmu_client_segv(p)
  BY <1>3, SegvControl
<1>4. CASE \/ mmu_client_segv_unlisted(p) \/ mmu_client_syslog_wild(p)
           \/ mmu_fault_done(p) \/ mmu_disk_write(p) \/ mmu_fill(p)
  BY <1>4, SegvUnlistedControl, FaultDoneControl, TransferControl
<1>5. CASE mmu_call_send(p) \/ mmu_call_peek(p) \/ mmu_call_recv(p) \/ mmu_call_eof(p)
  BY <1>5, CallSendControl, CallPeekControl, CallRecvControl, CallEofControl
<1> QED
  BY <1>1, <1>2, <1>3, <1>4, <1>5 DEF ClientThread

\* No step of a thread or a program disturbs what Control says.
LEMMA ControlNext ==
  ASSUME Control, Tables, pte \in [PageIds -> Pte], [SysNext]_sysVars
  PROVE  Control'
<1>1. CASE UNCHANGED sysVars
  <2>1. UNCHANGED <<thrVars, client, pte, app, wanted, result, npages, toMmu, toCli>>
    BY <1>1 DEF sysVars, vars, cliVars
  <2>2. CtlTypes' /\ RoomToExtend' /\ ClientOK'
    BY <2>1 DEF Control, CtlTypes, RoomToExtend, ClientOK, thrVars
  <2> QED
    BY <2>1, <2>2, SilentControl
<1>2. ASSUME NEW p \in Pids, Program(p) \/ Returns(p) \/ UvmThread(p) \/ ClientThread(p)
      PROVE  Control'
  BY <1>2, ProgramControl, UvmThreadControl, ClientThreadControl
<1>3. CASE AllDone
  BY <1>1, <1>3 DEF AllDone
<1> QED
  BY <1>1, <1>2, <1>3 DEF SysNext

-----------------------------------------------------------------------------
(* The part that looks into memory *)

DataTypes ==
  /\ pmem \in [Frames -> Values]
  /\ disk \in [Blocks -> Values]
  /\ pte \in [PageIds -> Pte]

Data == Tables /\ DataTypes /\ CallsOK /\ MemoryOK

-----------------------------------------------------------------------------
(* The list of calls *)

LEMMA RankFacts ==
  ASSUME NEW c \in MmuCall
  PROVE  /\ Rank(c) \in 0..4
         /\ c.op = "chprot" <=> Rank(c) = 0
         /\ c.op = "nonresident" <=> Rank(c) = 1
         /\ c.op = "disk_write" <=> Rank(c) = 2
         /\ c.op \in Fills <=> Rank(c) = 3
         /\ c.op = "resident" <=> Rank(c) = 4
<1>1. c.op \in {"chprot", "nonresident", "disk_write", "disk_read", "zero_fill", "resident"}
  BY CallParts DEF WaitingCalls, Transfers
<1>2. CASE c.op = "chprot"
  BY <1>2 DEF Rank, Fills
<1>3. CASE c.op = "nonresident"
  BY <1>3 DEF Rank, Fills
<1>4. CASE c.op = "disk_write"
  BY <1>4 DEF Rank, Fills
<1>5. CASE c.op \in {"disk_read", "zero_fill"}
  BY <1>5 DEF Rank, Fills
<1>6. CASE c.op = "resident"
  BY <1>6 DEF Rank, Fills
<1> QED
  BY <1>1, <1>2, <1>3, <1>4, <1>5, <1>6

LEMMA CallsTyped ==
  ASSUME Control, NEW j \in DOMAIN calls
  PROVE  /\ j \in Nat /\ j >= 1
         /\ calls[j] \in MmuCall
         /\ calls[j].page \in PageIds
<1>1. calls \in Seq(MmuCall)
  BY DEF Control, MessagesOK
<1>2. j \in 1..Len(calls) /\ Len(calls) \in Nat
  BY <1>1, LenProperties
<1>3. calls[j] \in MmuCall
  BY <1>1, <1>2, ElementOfSeq
<1> QED
  BY <1>2, <1>3, CallParts

\* The calls behind the first one have no lower rank, and a higher one unless
\* they are mmu_chprot.
LEMMA HeadFirst ==
  ASSUME Control, CallsOK, calls # <<>>
  PROVE  /\ 1 \in DOMAIN calls
         /\ Head(calls) = calls[1]
         /\ Head(calls) \in MmuCall
         /\ Head(calls).page \in PageIds
         /\ CallOK(Head(calls))
         /\ \A j \in DOMAIN calls : j # 1 =>
              \/ Rank(Head(calls)) < Rank(calls[j])
              \/ Head(calls).op = "chprot" /\ calls[j].op = "chprot"
<1>1. calls \in Seq(MmuCall)
  BY DEF Control, MessagesOK
<1>2. 1 \in DOMAIN calls /\ Head(calls) = calls[1]
  BY <1>1, TailFacts
<1>3. \A j \in DOMAIN calls : j # 1 => 1 < j
  BY CallsTyped
<1> QED
  BY <1>2, <1>3, CallsTyped DEF CallsOK

\* Once a transfer is next, the page that leaves has been taken from its
\* process; once the frame is filled, only mmu_resident is left.
LEMMA NotBefore ==
  ASSUME Control, CallsOK, calls # <<>>
  PROVE  /\ Head(calls).op \in Transfers \cup {"resident"} => \A pg : ~ Evicting(pg)
         /\ Head(calls).op = "resident" => \A pg : ~ Loading(pg)
         /\ Head(calls).op \in Transfers => \A j \in DOMAIN calls :
              j # 1 => calls[j].op \in Fills \cup {"resident"}
         /\ Head(calls).op \in Fills => \A j \in DOMAIN calls :
              j # 1 => calls[j].op = "resident"
<1>1. /\ Head(calls) = calls[1] /\ Head(calls) \in MmuCall
      /\ \A j \in DOMAIN calls : j # 1 =>
           \/ Rank(Head(calls)) < Rank(calls[j])
           \/ Head(calls).op = "chprot" /\ calls[j].op = "chprot"
  BY HeadFirst
<1>2. \A j \in DOMAIN calls :
        /\ Rank(calls[j]) \in 0..4
        /\ calls[j].op = "nonresident" <=> Rank(calls[j]) = 1
        /\ calls[j].op \in Fills <=> Rank(calls[j]) = 3
        /\ calls[j].op = "resident" <=> Rank(calls[j]) = 4
  BY CallsTyped, RankFacts
<1>3. /\ Rank(Head(calls)) \in 0..4
      /\ Head(calls).op = "disk_write" <=> Rank(Head(calls)) = 2
      /\ Head(calls).op \in Fills <=> Rank(Head(calls)) = 3
      /\ Head(calls).op = "resident" <=> Rank(Head(calls)) = 4
  BY <1>1, RankFacts
<1>4. Head(calls).op \in Transfers <=> Head(calls).op = "disk_write" \/ Head(calls).op \in Fills
  BY DEF Transfers, Fills
<1>5. Head(calls).op \in Transfers \cup {"resident"} => \A pg : ~ Evicting(pg)
  <2> SUFFICES ASSUME Head(calls).op \in Transfers \cup {"resident"},
                      NEW j \in DOMAIN calls, calls[j].op = "nonresident"
               PROVE  FALSE
    BY DEF Evicting, Pending
  <2>1. Rank(calls[j]) = 1 /\ Rank(Head(calls)) \in {2, 3, 4}
    BY <1>2, <1>3, <1>4
  <2>2. Head(calls).op # "chprot"
    BY DEF Transfers
  <2> QED
    BY <1>1, <2>1, <2>2
<1>6. Head(calls).op = "resident" => \A pg : ~ Loading(pg)
  <2> SUFFICES ASSUME Head(calls).op = "resident",
                      NEW j \in DOMAIN calls, calls[j].op \in Fills
               PROVE  FALSE
    BY DEF Loading, Pending
  <2>1. Rank(calls[j]) = 3 /\ Rank(Head(calls)) = 4
    BY <1>2, <1>3
  <2> QED
    BY <1>1, <2>1
<1>7. ASSUME Head(calls).op \in Transfers, NEW j \in DOMAIN calls, j # 1
      PROVE  /\ calls[j].op \in Fills \cup {"resident"}
             /\ Head(calls).op \in Fills => calls[j].op = "resident"
  <2>1. Head(calls).op # "chprot"
    BY <1>7 DEF Transfers
  <2>2. Rank(Head(calls)) < Rank(calls[j])
    BY <1>1, <1>7, <2>1
  <2> QED
    BY <1>2, <1>3, <1>4, <1>7, <2>2
<1>8. Fills \subseteq Transfers
  BY DEF Fills, Transfers
<1> QED
  BY <1>5, <1>6, <1>7, <1>8

\* There is only one page that leaves.
LEMMA OneVictim ==
  ASSUME Control, CallsOK, NEW pg, NEW q, Evicting(pg), Evicting(q)
  PROVE  pg = q
<1>1. PICK j \in DOMAIN calls : calls[j].op = "nonresident" /\ calls[j].page = pg
  BY DEF Evicting, Pending
<1>2. PICK k \in DOMAIN calls : calls[k].op = "nonresident" /\ calls[k].page = q
  BY DEF Evicting, Pending
<1>3. Rank(calls[j]) = 1 /\ Rank(calls[k]) = 1 /\ j \in Nat /\ k \in Nat
  BY <1>1, <1>2, CallsTyped, RankFacts
<1>4. ~ (j < k) /\ ~ (k < j)
  BY <1>1, <1>2, <1>3 DEF CallsOK
<1>5. j = k
  BY <1>3, <1>4
<1> QED
  BY <1>1, <1>2, <1>5

\* A page that leaves does so for one that is loaded into its frame.
LEMMA RoomFor ==
  ASSUME Control, CallsOK, NEW pg, MakesRoom(pg)
  PROVE  \E r \in PageIds :
           /\ Listed(r)
           /\ pages[r].isvalid = 1
           /\ pages[r].frame_number = pages[pg].frame_number
           /\ pages[pg].frame_number \in Frames
           /\ Loading(r)
<1>1. PICK j \in DOMAIN calls :
        calls[j].op \in Fills /\ calls[j].frame = pages[pg].frame_number
  BY DEF MakesRoom
<1>2. calls[j] \in MmuCall /\ calls[j].page \in PageIds /\ CallOK(calls[j])
  BY CallsTyped DEF CallsOK
<1>3. calls[j].frame \in Frames
  BY <1>1, <1>2, CallParts DEF Fills
<1>4. Loading(calls[j].page)
  BY <1>1 DEF Loading, Pending
<1> QED
  BY <1>1, <1>2, <1>3, <1>4 DEF CallOK

LEMMA EvictingFacts ==
  ASSUME Control, CallsOK, NEW pg, Evicting(pg)
  PROVE  Listed(pg) /\ pages[pg].isvalid = 0 /\ MakesRoom(pg)
<1>1. PICK j \in DOMAIN calls : calls[j].op = "nonresident" /\ calls[j].page = pg
  BY DEF Evicting, Pending
<1> QED
  BY <1>1 DEF CallsOK, CallOK

\* The page whose contents frame pages[pg].frame_number holds for sure.
InFrame(pg) ==
  Listed(pg) /\ ((pages[pg].isvalid = 1 /\ ~ Loading(pg)) \/ Evicting(pg))

LEMMA OneInFrame ==
  ASSUME Control, Tables, CallsOK, NEW pg \in PageIds, NEW q \in PageIds,
         InFrame(pg), InFrame(q), pages[pg].frame_number = pages[q].frame_number
  PROVE  pg = q
<1>1. ASSUME NEW x \in PageIds, NEW y \in PageIds, Evicting(x), InFrame(y), ~ Evicting(y),
             pages[x].frame_number = pages[y].frame_number
      PROVE  FALSE
  <2>1. PICK r \in PageIds : /\ Listed(r)
                             /\ pages[r].isvalid = 1
                             /\ pages[r].frame_number = pages[x].frame_number
                             /\ Loading(r)
    BY <1>1, EvictingFacts, RoomFor
  <2>2. Listed(y) /\ pages[y].isvalid = 1 /\ ~ Loading(y)
    BY <1>1 DEF InFrame
  <2>3. y = r
    BY <1>1, <2>1, <2>2, OwnFrame
  <2> QED
    BY <2>1, <2>2, <2>3
<1>2. CASE Evicting(pg) /\ Evicting(q)
  BY <1>2, OneVictim
<1>3. CASE Evicting(pg) <=> ~ Evicting(q)
  BY <1>1, <1>3
<1>4. CASE ~ Evicting(pg) /\ ~ Evicting(q)
  BY <1>4, OwnFrame DEF InFrame
<1> QED
  BY <1>2, <1>3, <1>4

\* What a program reaches.
LEMMA ReachFacts ==
  ASSUME Control, Data, NEW pg \in PageIds, Reach(pg)
  PROVE  /\ InFrame(pg)
         /\ ~ Loading(pg)
         /\ pte[pg].frame = pages[pg].frame_number
         /\ pages[pg].frame_number \in Frames
<1>1. /\ Listed(pg)
      /\ pte[pg].frame = pages[pg].frame_number
      /\ pages[pg].isvalid = 1 \/ Evicting(pg)
      /\ ~ Loading(pg)
  BY DEF Data, MemoryOK
<1>2. pages[pg].frame_number \in Frames
  <2>1. CASE pages[pg].isvalid = 1
    BY <1>1, <2>1, ListedFacts DEF Data
  <2>2. CASE Evicting(pg)
    BY <2>2, EvictingFacts, RoomFor DEF Data
  <2> QED
    BY <1>1, <2>1, <2>2
<1> QED
  BY <1>1, <1>2 DEF InFrame

-----------------------------------------------------------------------------
(* Steps that change neither tables, memory nor mappings *)

LEMMA SameCalls ==
  ASSUME CallsOK, UNCHANGED <<blocks, pages, count, calls, locker>>
  PROVE  CallsOK'
<1>1. ASSUME NEW c
      PROVE  CallOK(c) => CallOK(c)'
  BY DEF CallOK, Listed, MakesRoom
<1>2. ASSUME NEW j \in DOMAIN calls
      PROVE  CallOK(calls[j])'
  <2>1. PICK c : c = calls[j]
    OBVIOUS
  <2>2. CallOK(c)'
    BY <1>1, <2>1 DEF CallsOK
  <2> QED
    BY <2>1, <2>2
<1>3. \A j \in DOMAIN calls : Rank(calls[j])' = Rank(calls[j])
  BY DEF Rank
<1> QED
  BY <1>2, <1>3 DEF CallsOK

\* Nobody becomes able to reach a page, and the calls stay as they are.
LEMMA SameData ==
  ASSUME Data, UNCHANGED <<pagerVars, pmem, disk, pte, calls>>,
         locker' = locker \/ calls = <<>>,
         \A p \in Pids : client'[p] \in {"none", "live"} => client[p] \in {"none", "live"}
  PROVE  Data'
<1>1. UNCHANGED <<frames, sec_chance_index, blocks, pages, count>>
  BY DEF pagerVars
<1>2. Tables'
  BY <1>1, SameTables DEF Data
<1>3. DataTypes'
  BY DEF Data, DataTypes
<1>4. CallsOK'
  <2>1. CASE calls = <<>>
    BY <2>1 DEF CallsOK
  <2>2. CASE locker' = locker
    BY <1>1, <2>2, SameCalls DEF Data
  <2> QED
    BY <2>1, <2>2
<1>5. MemoryOK'
  <2>1. \A pg \in PageIds : Reach(pg)' => Reach(pg)
    BY PageIdParts DEF Reach
  <2>2. \A pg \in PageIds :
          /\ Listed(pg)' <=> Listed(pg)
          /\ Evicting(pg)' <=> Evicting(pg)
          /\ Loading(pg)' <=> Loading(pg)
          /\ Pending({"resident"}, pg)' <=> Pending({"resident"}, pg)
          /\ Pending({"disk_write"}, pg)' <=> Pending({"disk_write"}, pg)
          /\ Backing(pg)' = Backing(pg)
    BY <1>1 DEF Listed, Evicting, Loading, Pending, Backing
  <2> QED
    BY <1>1, <2>1, <2>2 DEF Data, MemoryOK
<1> QED
  BY <1>2, <1>3, <1>4, <1>5 DEF Data

LEMMA ProgramData ==
  ASSUME Control, Data, NEW p \in Pids, Program(p) \/ Returns(p),
         ~ \E i \in Indices, v \in Values : Store(p, i, v)
  PROVE  Data'
<1>1. UNCHANGED <<pagerVars, pmem, disk, pte, calls, locker>>
  BY DEF Program, Returns, Indices, uvm_create, uvm_extend, uvm_segv_action,
         uvm_syslog, uvm_exit, SpuriousWakeup, Die, uvm_created, Resume, Request,
         vars, pagerVars, thrVars
<1>2. client' = client \/ client' = [client EXCEPT ![p] = "exiting"]
  BY DEF Program, Returns, Indices, uvm_create, uvm_extend, uvm_segv_action,
         uvm_syslog, uvm_exit, SpuriousWakeup, Die, uvm_created, Resume, Request,
         vars
<1>3. \A q \in Pids : client'[q] \in {"none", "live"} => client[q] \in {"none", "live"}
  BY <1>2 DEF Control, CtlTypes
<1> QED
  BY <1>1, <1>3, SameData

\* Threads of the MMU that do not change tables, memory or the list of calls.
LEMMA QuietData ==
  ASSUME Control, Data, NEW p \in Pids,
         \/ mmu_peek(p) \/ mmu_recv(p) \/ mmu_eof(p)
         \/ mmu_client_create(p) \/ mmu_client_syslog(p)
         \/ mmu_client_segv_unlisted(p) \/ mmu_client_syslog_wild(p)
         \/ mmu_call_send(p) \/ mmu_call_peek(p)
         \/ mmu_call_eof(p) \/ mmu_fault_done(p) \/ mmu_reply(p)
  PROVE  Data'
<1>1. UNCHANGED <<pagerVars, pmem, disk, pte>>
  BY DEF mmu_peek, mmu_recv, mmu_eof, mmu_client_create, mmu_client_syslog,
         mmu_client_segv_unlisted, mmu_client_syslog_wild, mmu_call_send, mmu_call_peek,
         mmu_call_eof,
         mmu_fault_done, mmu_reply, pager_create, vars, pagerVars, tables
<1>2. UNCHANGED calls
  BY DEF mmu_peek, mmu_recv, mmu_eof, mmu_client_create, mmu_client_syslog,
         mmu_client_segv_unlisted, mmu_client_syslog_wild, mmu_call_send, mmu_call_peek,
         mmu_call_eof,
         mmu_fault_done, mmu_reply, Served, AtCall, WaitingCalls
<1>3. locker' = locker \/ calls = <<>>
  BY DEF mmu_peek, mmu_recv, mmu_eof, mmu_client_create, mmu_client_syslog,
         mmu_client_segv_unlisted, mmu_client_syslog_wild, mmu_call_send, mmu_call_peek,
         mmu_call_eof,
         mmu_fault_done, mmu_reply, Served
<1>4. \/ client' = client
      \/ client[p] = "none" /\ client' = [client EXCEPT ![p] = "live"]
  BY DEF mmu_peek, mmu_recv, mmu_eof, mmu_client_create, mmu_client_syslog,
         mmu_client_segv_unlisted, mmu_client_syslog_wild, mmu_call_send, mmu_call_peek,
         mmu_call_eof,
         mmu_fault_done, mmu_reply, pager_create, vars
<1>5. \A q \in Pids : client'[q] \in {"none", "live"} => client[q] \in {"none", "live"}
  BY <1>4 DEF Control, CtlTypes
<1> QED
  BY <1>1, <1>2, <1>3, <1>5, SameData

-----------------------------------------------------------------------------
(* Memory: stores, mappings, transfers *)

LEMMA StoreData ==
  ASSUME Control, Data, NEW p \in Pids, NEW i \in Indices, NEW v \in Values, Store(p, i, v)
  PROVE  Data'
<1>1. PICK pg \in PageIds : pg = <<p, i>>
  <2>1. <<p, i>> \in PageIds
    BY PageIdOf, SizesAssumption DEF Indices
  <2> QED
    BY <2>1
<1>2. /\ app[p] = "run"
      /\ pte[pg].prot = "RW"
      /\ pmem' = [pmem EXCEPT ![pte[pg].frame] = v]
      /\ UNCHANGED <<pagerVars, disk, pte, client, thrVars>>
  BY <1>1 DEF Store
<1>3. UNCHANGED <<frames, sec_chance_index, blocks, pages, count, locker, calls>>
  BY <1>2 DEF pagerVars, thrVars
<1>4. Reach(pg)
  BY <1>1, <1>2 DEF Control, ClientOK, Reach
<1>5. /\ InFrame(pg)
      /\ pte[pg].frame = pages[pg].frame_number
      /\ pages[pg].dirty = 1
  BY <1>2, <1>4, ReachFacts DEF Data, MemoryOK
<1>6. ASSUME NEW q \in PageIds, InFrame(q), pages[q].dirty # 1
      PROVE  pmem'[pages[q].frame_number] = pmem[pages[q].frame_number]
  <2>1. pages[q].frame_number # pte[pg].frame
    BY <1>5, <1>6, OneInFrame DEF Data
  <2> QED
    BY <1>2, <2>1 DEF Data, DataTypes
<1>7. Tables'
  BY <1>3, SameTables DEF Data
<1>8. DataTypes'
  BY <1>2 DEF Data, DataTypes
<1>9. CallsOK'
  BY <1>3, SameCalls DEF Data
<1>10. MemoryOK'
  <2>1. \A q \in PageIds :
          /\ Reach(q)' <=> Reach(q)
          /\ Listed(q)' <=> Listed(q)
          /\ Evicting(q)' <=> Evicting(q)
          /\ Loading(q)' <=> Loading(q)
          /\ Pending({"resident"}, q)' <=> Pending({"resident"}, q)
          /\ Pending({"disk_write"}, q)' <=> Pending({"disk_write"}, q)
          /\ Backing(q)' = Backing(q)
    BY <1>2, <1>3 DEF Reach, Listed, Evicting, Loading, Pending, Backing
  <2>2. ASSUME NEW q \in PageIds, Listed(q), pages[q].isvalid = 1, pages[q].dirty = 0, ~ Loading(q)
        PROVE  pmem'[pages[q].frame_number] = Backing(q)
    <3>1. InFrame(q)
      BY <2>2 DEF InFrame
    <3> QED
      BY <1>6, <2>2, <3>1 DEF Data, MemoryOK
  <2>3. ASSUME NEW q \in PageIds, Evicting(q), ~ Pending({"disk_write"}, q)
        PROVE  pages[q].dirty = 0 /\ pmem'[pages[q].frame_number] = Backing(q)
    <3>1. InFrame(q)
      BY <2>3, EvictingFacts DEF InFrame, Data
    <3> QED
      BY <1>6, <2>3, <3>1 DEF Data, MemoryOK
  <2> QED
    BY <1>2, <1>3, <2>1, <2>2, <2>3 DEF Data, MemoryOK
<1> QED
  BY <1>7, <1>8, <1>9, <1>10 DEF Data

\* uvm_thread maps a page or changes its protection: the call at the head of
\* the list takes effect.
LEMMA MappingData ==
  ASSUME Control, Data, NEW p \in Pids,
         uvm_proto_remap_rep(p) \/ uvm_proto_chprot_rep(p)
  PROVE  Data'
<1> DEFINE rep == Head(toCli[p])
<1>1. /\ toCli[p] # <<>>
      /\ rep.type \in PagerReplies
      /\ UNCHANGED <<pagerVars, pmem, disk, client, thrVars>>
  BY DEF uvm_proto_remap_rep, uvm_proto_chprot_rep, uvm_recv, PagerReplies
<1>2. PICK c \in MmuCall : c = Head(calls)
  BY <1>1, PagerReplyFacts
<1>3. PICK pg \in PageIds : pg = c.page
  BY <1>1, <1>2, PagerReplyFacts
<1>4. pg = <<p, rep.i>> /\ rep = Message(c) /\ c.op \in WaitingCalls /\ calls # <<>>
  BY <1>1, <1>2, <1>3, PagerReplyFacts
<1>5. /\ rep.prot = c.prot
      /\ rep.type = "REMAP_REP" <=> c.op = "resident"
      /\ c.op = "resident" => rep.frame = c.frame
      /\ rep \in ReplyMsg
  BY <1>4, MessageParts
<1>6. rep.prot \in Prots /\ (rep.type = "REMAP_REP" => rep.frame \in Frames)
  BY <1>1, <1>5, ReplyParts
<1>7. pte \in [PageIds -> Pte]
  BY DEF Data, DataTypes
<1>8. /\ pte' \in [PageIds -> Pte]
      /\ pte'[pg].prot = c.prot
      /\ pte'[pg].frame = IF c.op = "resident" THEN c.frame ELSE pte[pg].frame
      /\ \A q \in PageIds : q # pg => pte'[q] = pte[q]
  <2>1. CASE uvm_proto_remap_rep(p)
    <3>1. pte' = [pte EXCEPT ![pg] = [frame |-> rep.frame, prot |-> rep.prot]]
      BY <1>4, <2>1 DEF uvm_proto_remap_rep
    <3>2. rep.type = "REMAP_REP"
      BY <2>1 DEF uvm_proto_remap_rep, uvm_recv
    <3>3. [frame |-> rep.frame, prot |-> rep.prot] \in Pte
      BY <1>6, <3>2 DEF Pte, Prots
    <3>4. pte'[pg].frame = rep.frame /\ pte'[pg].prot = rep.prot
      BY <1>7, <3>1
    <3> QED
      BY <1>5, <1>7, <3>1, <3>2, <3>3, <3>4
  <2>2. CASE uvm_proto_chprot_rep(p)
    <3>1. pte' = [pte EXCEPT ![pg].prot = rep.prot]
      BY <1>4, <2>2 DEF uvm_proto_chprot_rep
    <3>2. rep.type # "REMAP_REP"
      BY <2>2 DEF uvm_proto_chprot_rep, uvm_recv
    <3>3. pte[pg] \in Pte
      BY <1>7
    <3>4. /\ pte'[pg] = [pte[pg] EXCEPT !.prot = rep.prot]
          /\ pte' = [pte EXCEPT ![pg] = [pte[pg] EXCEPT !.prot = rep.prot]]
      BY <1>7, <3>1
    <3>5. [pte[pg] EXCEPT !.prot = rep.prot] \in Pte
      BY <1>6, <3>3 DEF Pte, Prots
    <3>6. pte'[pg].frame = pte[pg].frame /\ pte'[pg].prot = rep.prot
      BY <3>3, <3>4 DEF Pte
    <3> QED
      BY <1>5, <1>7, <3>2, <3>4, <3>5, <3>6
  <2> QED
    BY <2>1, <2>2
<1> HIDE DEF rep
<1>9. UNCHANGED <<frames, sec_chance_index, blocks, pages, count, locker, calls>>
  BY <1>1 DEF pagerVars, thrVars
<1>10. CallOK(c)
  BY <1>2, <1>4, HeadFirst DEF Data
<1>11. Tables' /\ DataTypes'
  BY <1>1, <1>8, <1>9, SameTables DEF Data, DataTypes
<1>12. CallsOK'
  BY <1>9, SameCalls DEF Data
<1>13. MemoryOK'
  <2>1. \A q \in PageIds :
          /\ Listed(q)' <=> Listed(q)
          /\ Evicting(q)' <=> Evicting(q)
          /\ Loading(q)' <=> Loading(q)
          /\ Pending({"resident"}, q)' <=> Pending({"resident"}, q)
          /\ Pending({"disk_write"}, q)' <=> Pending({"disk_write"}, q)
          /\ Backing(q)' = Backing(q)
    BY <1>1, <1>9 DEF Listed, Evicting, Loading, Pending, Backing
  <2>2. \A q \in PageIds : q # pg => (Reach(q)' <=> Reach(q))
    BY <1>1, <1>8 DEF Reach
  <2>3. /\ Listed(pg)
        /\ c.op \notin {"chprot", "resident"} => c.prot = "NONE"
    BY <1>3, <1>4, <1>10 DEF CallOK, WaitingCalls
  <2>4. c.op = "chprot" /\ c.prot # "NONE" =>
          /\ pages[pg].isvalid = 1 /\ pages[pg].dirty = 1
          /\ ~ Loading(pg) /\ ~ Pending({"resident"}, pg)
    <3> SUFFICES ASSUME c.op = "chprot", c.prot # "NONE"
                 PROVE  /\ pages[pg].isvalid = 1 /\ pages[pg].dirty = 1
                        /\ ~ Loading(pg) /\ ~ Pending({"resident"}, pg)
      OBVIOUS
    <3>1. Len(calls) = 1 /\ pages[pg].isvalid = 1 /\ pages[pg].dirty = 1
      BY <1>3, <1>10 DEF CallOK
    <3>2. DOMAIN calls = 1..1 /\ calls[1] = c
      BY <1>2, <1>4, <3>1, HeadFirst, LenProperties DEF Data, Control, MessagesOK
    <3>3. \A j \in DOMAIN calls : calls[j].op = "chprot"
      BY <3>2
    <3> QED
      BY <3>1, <3>3 DEF Loading, Pending, Fills
  <2>5. c.op = "resident" =>
          /\ c.prot = "READ" /\ pages[pg].isvalid = 1
          /\ c.frame = pages[pg].frame_number /\ ~ Loading(pg)
    BY <1>2, <1>3, <1>4, <1>10, NotBefore DEF CallOK, Data
  <2> SUFFICES ASSUME NEW q \in PageIds
      PROVE  /\ Reach(q)' => /\ Listed(q)
                             /\ pte'[q].frame = pages[q].frame_number
                             /\ pages[q].isvalid = 1 \/ Evicting(q)
                             /\ ~ Loading(q)
                             /\ pte'[q].prot = "RW" => pages[q].dirty = 1
             /\ Listed(q) /\ pages[q].isvalid = 1 /\ ~ Pending({"resident"}, q) =>
                  pte'[q].frame = pages[q].frame_number
    BY <1>1, <1>9, <2>1 DEF Data, MemoryOK
  <2>6. CASE q # pg
    BY <1>8, <2>2, <2>6 DEF Data, MemoryOK
  <2>7. CASE q = pg
    <3>1. /\ Listed(pg) /\ pages[pg].isvalid = 1 /\ ~ Pending({"resident"}, pg) =>
               pte[pg].frame = pages[pg].frame_number
      BY DEF Data, MemoryOK
    <3>2. Reach(q)' => c.prot # "NONE"
      BY <1>8, <2>7 DEF Reach
    <3> QED
      BY <1>4, <1>8, <2>3, <2>4, <2>5, <2>7, <3>1, <3>2 DEF WaitingCalls
  <2> QED
    BY <2>6, <2>7
<1> QED
  BY <1>11, <1>12, <1>13 DEF Data

LEMMA UvmThreadData ==
  ASSUME Control, Data, NEW p \in Pids, UvmThread(p)
  PROVE  Data'
<1>1. CASE uvm_proto_remap_rep(p) \/ uvm_proto_chprot_rep(p)
  BY <1>1, MappingData
<1>2. CASE \/ uvm_proto_extend_rep(p) \/ uvm_proto_syslog_rep(p)
           \/ uvm_proto_segv_rep(p) \/ uvm_exit_rep(p)
  <2>1. UNCHANGED <<pagerVars, pmem, disk, pte, client, calls, locker>>
    BY <1>2 DEF uvm_proto_extend_rep, uvm_proto_syslog_rep, uvm_proto_segv_rep,
                uvm_exit_rep, vars, pagerVars, thrVars
  <2> QED
    BY <2>1, SameData
<1> QED
  BY <1>1, <1>2 DEF UvmThread

-----------------------------------------------------------------------------
(* Steps that end the first call of the list *)

\* The list without its first call.
LEMMA TailCalls ==
  ASSUME Control, calls # <<>>, calls' = Tail(calls)
  PROVE  /\ \A j \in DOMAIN calls' : j + 1 \in DOMAIN calls /\ calls[j + 1] = calls'[j]
         /\ \A j \in DOMAIN calls : j # 1 => j - 1 \in DOMAIN calls' /\ calls'[j - 1] = calls[j]
         /\ \A j \in DOMAIN calls' : j \in Nat /\ j >= 1
<1>1. calls \in Seq(MmuCall)
  BY DEF Control, MessagesOK
<1>2. /\ DOMAIN calls = 1..Len(calls) /\ Len(calls) \in Nat \ {0}
      /\ DOMAIN calls' = 1..(Len(calls) - 1)
      /\ \A j \in 1..(Len(calls) - 1) : calls'[j] = calls[j + 1]
  BY <1>1, TailFacts
<1>3. \A j \in DOMAIN calls : j # 1 => j - 1 \in DOMAIN calls' /\ (j - 1) + 1 = j
  BY <1>2
<1> QED
  BY <1>2, <1>3

LEMMA PendingTail ==
  ASSUME Control, calls # <<>>, calls' = Tail(calls), NEW ops_, NEW pg
  PROVE  /\ Pending(ops_, pg)' => Pending(ops_, pg)
         /\ Pending(ops_, pg) =>
              Pending(ops_, pg)' \/ (Head(calls).op \in ops_ /\ Head(calls).page = pg)
<1>1. Pending(ops_, pg)' => Pending(ops_, pg)
  <2> SUFFICES ASSUME NEW j \in DOMAIN calls', calls'[j].op \in ops_, calls'[j].page = pg
               PROVE  \E k \in DOMAIN calls : calls[k].op \in ops_ /\ calls[k].page = pg
    BY DEF Pending
  <2> QED
    BY TailCalls
<1>2. Head(calls) = calls[1]
  <2>1. calls \in Seq(MmuCall)
    BY DEF Control, MessagesOK
  <2> QED
    BY <2>1, TailFacts
<1>3. ASSUME NEW j \in DOMAIN calls, calls[j].op \in ops_, calls[j].page = pg, j # 1
      PROVE  Pending(ops_, pg)'
  BY <1>3, TailCalls DEF Pending
<1> QED
  BY <1>1, <1>2, <1>3 DEF Pending

LEMMA TailCallsOK ==
  ASSUME Control, CallsOK, calls # <<>>, calls' = Tail(calls),
         UNCHANGED <<blocks, pages, count, locker>>
  PROVE  CallsOK'
<1>1. ASSUME NEW i \in DOMAIN calls'
      PROVE  CallOK(calls[i])'
  <2>1. PICK k \in DOMAIN calls : k # 1 /\ calls[k] = calls'[i]
    BY <1>1, TailCalls
  <2>2. PICK c \in MmuCall : c = calls[k]
    BY CallsTyped
  <2>3. CallOK(c)
    BY <2>2 DEF CallsOK
  <2>4. c.op \in {"nonresident", "disk_write"} => Head(calls).op \notin Fills
    BY <2>1, <2>2, NotBefore DEF Fills, Transfers
  <2>5. ASSUME NEW pg, MakesRoom(pg), Head(calls).op \notin Fills
        PROVE  MakesRoom(pg)'
    <3>1. PICK m \in DOMAIN calls :
            calls[m].op \in Fills /\ calls[m].frame = pages[pg].frame_number
      BY <2>5 DEF MakesRoom
    <3>2. m # 1
      BY <2>5, <3>1, HeadFirst
    <3>3. m - 1 \in DOMAIN calls' /\ calls'[m - 1] = calls[m]
      BY <3>2, TailCalls
    <3> QED
      BY <3>1, <3>3 DEF MakesRoom
  <2>6. Len(calls) # 1
    <3>1. calls \in Seq(MmuCall)
      BY DEF Control, MessagesOK
    <3> QED
      BY <2>1, <3>1, LenProperties
  <2>7. Listed(c.page)' <=> Listed(c.page)
    BY DEF Listed
  <2>8. CallOK(c)'
    BY <2>3, <2>4, <2>5, <2>6, <2>7 DEF CallOK
  <2> QED
    BY <2>1, <2>2, <2>8
<1>3. ASSUME NEW i \in DOMAIN calls', NEW k \in DOMAIN calls', i < k
      PROVE  \/ Rank(calls'[i]) < Rank(calls'[k])
             \/ calls'[i].op = "chprot" /\ calls'[k].op = "chprot"
  <2>1. /\ i + 1 \in DOMAIN calls /\ k + 1 \in DOMAIN calls /\ i + 1 < k + 1
        /\ calls[i + 1] = calls'[i] /\ calls[k + 1] = calls'[k]
    BY <1>3, TailCalls
  <2> QED
    BY <2>1 DEF CallsOK
<1>4. \A i \in DOMAIN calls' : Rank(calls[i])' = Rank(calls'[i])
  BY DEF Rank
<1> QED
  BY <1>1, <1>3, <1>4 DEF CallsOK

\* The answer to a message of the pager is received.
LEMMA CallRecvData ==
  ASSUME Control, Data, NEW p \in Pids, mmu_call_recv(p)
  PROVE  Data'
<1>1. /\ thr[p] = "answered"
      /\ calls' = Tail(calls)
      /\ UNCHANGED <<frames, sec_chance_index, blocks, pages, count, pmem, disk,
                     pte, client, locker>>
  BY DEF mmu_call_recv, vars
<1>2. PICK c \in MmuCall : c = Head(calls)
  BY <1>1, AnswerFacts
<1>3. calls # <<>> /\ c.op \in WaitingCalls /\ Effected(c)
  BY <1>1, <1>2, AnswerFacts
<1>4. c.page \in PageIds /\ CallOK(c)
  BY <1>2, <1>3, HeadFirst DEF Data
<1>5. Tables' /\ DataTypes'
  BY <1>1, SameTables DEF Data, DataTypes
<1>6. CallsOK'
  BY <1>1, <1>3, TailCallsOK DEF Data
<1>7. c.op \notin Fills \cup {"disk_write"}
  BY <1>3 DEF WaitingCalls, Fills
<1>8. ASSUME NEW q \in PageIds
      PROVE  /\ Loading(q)' <=> Loading(q)
             /\ Pending({"disk_write"}, q)' <=> Pending({"disk_write"}, q)
             /\ Evicting(q)' => Evicting(q)
             /\ Evicting(q) => Evicting(q)' \/ (c.op = "nonresident" /\ c.page = q)
             /\ Pending({"resident"}, q) =>
                  Pending({"resident"}, q)' \/ (c.op = "resident" /\ c.page = q)
  BY <1>1, <1>2, <1>3, <1>7, PendingTail DEF Loading, Evicting
<1>9. MemoryOK'
  <2> SUFFICES ASSUME NEW q \in PageIds
      PROVE  /\ Reach(q) => pages[q].isvalid = 1 \/ Evicting(q)'
             /\ Listed(q) /\ pages[q].isvalid = 1 /\ ~ Pending({"resident"}, q)' =>
                  pte[q].frame = pages[q].frame_number
    <3>1. \A q \in PageIds :
            /\ Reach(q)' <=> Reach(q)
            /\ Listed(q)' <=> Listed(q)
            /\ Backing(q)' = Backing(q)
      BY <1>1 DEF Reach, Listed, Backing
    <3> QED
      BY <1>1, <1>8, <3>1 DEF Data, MemoryOK
  <2>1. Reach(q) => pages[q].isvalid = 1 \/ Evicting(q)'
    <3>1. ASSUME c.op = "nonresident", c.page = q
          PROVE  ~ Reach(q)
      BY <1>3, <1>4, <3>1 DEF Effected, CallOK, Reach
    <3> QED
      BY <1>8, <3>1 DEF Data, MemoryOK
  <2>2. Listed(q) /\ pages[q].isvalid = 1 /\ ~ Pending({"resident"}, q)' =>
          pte[q].frame = pages[q].frame_number
    <3>1. ASSUME c.op = "resident", c.page = q
          PROVE  pte[q].frame = pages[q].frame_number
      BY <1>3, <1>4, <3>1 DEF Effected, CallOK
    <3> QED
      BY <1>8, <3>1 DEF Data, MemoryOK
  <2> QED
    BY <2>1, <2>2
<1> QED
  BY <1>5, <1>6, <1>9 DEF Data

\* The victim is copied to its block.
LEMMA DiskWriteData ==
  ASSUME Control, Data, NEW p \in Pids, mmu_disk_write(p)
  PROVE  Data'
<1>1. PICK c \in MmuCall : c = Head(calls)
  BY HeadOfCalls DEF mmu_disk_write, AtCall, Control
<1>2. /\ calls # <<>>
      /\ c.op = "disk_write"
      /\ disk' = [disk EXCEPT ![c.block] = pmem[c.frame]]
      /\ calls' = Tail(calls)
      /\ UNCHANGED <<frames, sec_chance_index, blocks, pages, count, pmem,
                     pte, client, locker>>
  BY <1>1 DEF mmu_disk_write, AtCall, pagerVars
<1>3. PICK pg \in PageIds : pg = c.page
  BY <1>1, <1>2, HeadFirst DEF Data
<1>4. /\ Listed(pg)
      /\ pages[pg].isvalid = 0
      /\ c.block = pages[pg].block_number
  BY <1>1, <1>2, <1>3, HeadFirst DEF Data, CallOK
<1>5. c.frame \in Frames /\ c.block \in Blocks
  BY <1>2, CallParts DEF Transfers
<1>6. Tables' /\ DataTypes'
  BY <1>2, <1>5, SameTables DEF Data, DataTypes
<1>7. CallsOK'
  BY <1>2, TailCallsOK DEF Data
<1>8. \A q : ~ Evicting(q)
  BY <1>1, <1>2, NotBefore DEF Data, Transfers
<1>9. ASSUME NEW q \in PageIds
      PROVE  /\ Loading(q)' <=> Loading(q)
             /\ Pending({"resident"}, q)' <=> Pending({"resident"}, q)
             /\ ~ Evicting(q)'
  BY <1>1, <1>2, <1>8, PendingTail DEF Loading, Evicting, Fills
<1>10. ASSUME NEW q \in PageIds, Listed(q), pages[q].isvalid = 1
       PROVE  Backing(q)' = Backing(q)
  <2>1. q # pg
    BY <1>4, <1>10
  <2>2. pages[q].block_number # c.block /\ pages[q].block_number \in Blocks
    BY <1>3, <1>4, <1>10, <2>1, OwnBlock, ListedFacts DEF Data
  <2>3. disk'[pages[q].block_number] = disk[pages[q].block_number]
    BY <1>2, <2>2 DEF Data, DataTypes
  <2> QED
    BY <1>2, <2>3 DEF Backing
<1>11. MemoryOK'
  <2>1. \A q \in PageIds :
          /\ Reach(q)' <=> Reach(q)
          /\ Listed(q)' <=> Listed(q)
    BY <1>2 DEF Reach, Listed
  <2> QED
    BY <1>2, <1>8, <1>9, <1>10, <2>1 DEF Data, MemoryOK
<1> QED
  BY <1>6, <1>7, <1>11 DEF Data

\* The frame of the page that is loaded gets its contents.
LEMMA FillData ==
  ASSUME Control, Data, NEW p \in Pids, mmu_fill(p)
  PROVE  Data'
<1>1. PICK c \in MmuCall : c = Head(calls)
  BY HeadOfCalls DEF mmu_fill, AtCall, Control
<1>2. /\ calls # <<>>
      /\ c.op \in Fills
      /\ pmem' = [pmem EXCEPT ![c.frame] =
                    IF c.op = "disk_read" THEN disk[c.block] ELSE Zero]
      /\ calls' = Tail(calls)
      /\ UNCHANGED <<frames, sec_chance_index, blocks, pages, count, disk,
                     pte, client, locker>>
  BY <1>1 DEF mmu_fill, AtCall, pagerVars, Fills
<1>3. PICK pg \in PageIds : pg = c.page
  BY <1>1, <1>2, HeadFirst DEF Data
<1>4. /\ Listed(pg)
      /\ pages[pg].isvalid = 1
      /\ c.frame = pages[pg].frame_number
      /\ c.block = pages[pg].block_number
      /\ c.op = "disk_read" <=> blocks[c.block].used = 1
  BY <1>1, <1>2, <1>3, HeadFirst DEF Data, CallOK
<1>5. c.frame \in Frames /\ c.block \in Blocks
  BY <1>2, CallParts DEF Transfers, Fills
<1>6. Tables' /\ DataTypes'
  BY <1>2, <1>5, SameTables, ValuesAssumption DEF Data, DataTypes
<1>7. CallsOK'
  BY <1>2, TailCallsOK DEF Data
<1>8. \A q : ~ Evicting(q)
  BY <1>1, <1>2, NotBefore DEF Data, Transfers, Fills
<1>9. ASSUME NEW q \in PageIds
      PROVE  /\ Loading(q)' => Loading(q)
             /\ Loading(q) => Loading(q)' \/ q = pg
             /\ Pending({"resident"}, q)' <=> Pending({"resident"}, q)
             /\ ~ Evicting(q)'
  BY <1>1, <1>2, <1>3, <1>8, PendingTail DEF Loading, Evicting, Fills
<1>10. pmem'[pages[pg].frame_number] = Backing(pg)
  BY <1>2, <1>4, <1>5 DEF Backing, Data, DataTypes
<1>11. ASSUME NEW q \in PageIds, Listed(q), pages[q].isvalid = 1, q # pg
       PROVE  pmem'[pages[q].frame_number] = pmem[pages[q].frame_number]
  <2>1. pages[q].frame_number # c.frame
    BY <1>4, <1>11, OwnFrame DEF Data
  <2> QED
    BY <1>2, <2>1 DEF Data, DataTypes
<1>12. MemoryOK'
  <2>1. \A q \in PageIds :
          /\ Reach(q)' <=> Reach(q)
          /\ Listed(q)' <=> Listed(q)
          /\ Backing(q)' = Backing(q)
    BY <1>2 DEF Reach, Listed, Backing
  <2>2. ASSUME NEW q \in PageIds, Listed(q), pages[q].isvalid = 1, pages[q].dirty = 0,
               ~ Loading(q)'
        PROVE  pmem'[pages[q].frame_number] = Backing(q)
    <3>1. CASE q = pg
      BY <1>10, <3>1
    <3>2. CASE q # pg
      BY <1>9, <1>11, <2>2, <3>2 DEF Data, MemoryOK
    <3> QED
      BY <3>1, <3>2
  <2> QED
    BY <1>2, <1>8, <1>9, <2>1, <2>2 DEF Data, MemoryOK
<1> QED
  BY <1>6, <1>7, <1>12 DEF Data

-----------------------------------------------------------------------------
(* Steps that change the tables: the locker was free, so no call is left *)

LEMMA NothingPending ==
  ASSUME calls = <<>>, NEW pg
  PROVE  /\ \A ops_ : ~ Pending(ops_, pg)
         /\ ~ Loading(pg) /\ ~ Evicting(pg)
BY DEF Pending, Loading, Evicting

LEMMA ExtendData ==
  ASSUME Control, Data, NEW p \in Pids, mmu_client_extend(p)
  PROVE  Data'
<1>1. /\ calls = <<>>
      /\ UNCHANGED <<pmem, disk, pte, client, calls, locker>>
  BY FreeLocker DEF mmu_client_extend, TakeLocker, Served, Control
<1>2. CASE UNCHANGED pagerVars
  BY <1>1, <1>2, SameData
<1>3. CASE ExtendTables(p) /\ count[p] < MaxPages
  <2>1. PICK b \in Blocks : TableTypes' /\ Extends(p, b)
    BY <1>3, ExtendTablesExtends DEF Data
  <2>2. Tables'
    BY <2>1, ExtendsTables DEF Data
  <2>3. PICK new \in PageIds : new = <<p, count[p]>> /\ ~ Listed(new)
    BY <2>1 DEF Extends
  <2>4. CallsOK'
    BY <1>1 DEF CallsOK
  <2>5. MemoryOK'
    <3> SUFFICES ASSUME NEW q \in PageIds
        PROVE  /\ Reach(q)' =>
                    /\ Listed(q)'
                    /\ pte'[q].frame = pages'[q].frame_number
                    /\ pages'[q].isvalid = 1
                    /\ pte'[q].prot = "RW" => pages'[q].dirty = 1
               /\ Listed(q)' /\ pages'[q].isvalid = 1 =>
                    /\ pte'[q].frame = pages'[q].frame_number
                    /\ pages'[q].dirty = 0 => pmem'[pages'[q].frame_number] = Backing(q)'
      <4>1. \A q \in PageIds : ~ Loading(q)' /\ ~ Evicting(q)'
        BY <1>1 DEF Loading, Evicting, Pending
      <4> QED
        BY <4>1 DEF MemoryOK
    <3>1. Reach(q)' <=> Reach(q)
      BY <1>1 DEF Reach
    <3>2. /\ ~ Evicting(q) /\ ~ Loading(q) /\ ~ Pending({"resident"}, q)
      BY <1>1, NothingPending
    <3>3. CASE q = new
      <4>1. ~ Reach(q)
        BY <2>3, <3>3 DEF Data, MemoryOK
      <4>2. pages'[q].isvalid = 0
        BY <2>1, <2>3, <3>3 DEF Extends, NewPage
      <4> QED
        BY <3>1, <4>1, <4>2
    <3>4. CASE q # new
      <4>1. pages'[q] = pages[q] /\ (Listed(q)' <=> Listed(q))
        BY <2>1, <2>3, <3>4 DEF Extends
      <4>2. Listed(q) => Backing(q)' = Backing(q)
        <5>1. Listed(q) => pages[q].block_number \in Blocks
          BY ListedFacts DEF Data
        <5> QED
          BY <1>1, <2>1, <4>1, <5>1 DEF Extends, Backing
      <4> QED
        BY <1>1, <3>1, <3>2, <4>1, <4>2 DEF Data, MemoryOK
    <3> QED
      BY <3>3, <3>4
  <2> QED
    BY <1>1, <2>2, <2>4, <2>5 DEF Data, DataTypes
<1> QED
  BY <1>2, <1>3 DEF mmu_client_extend

LEMMA DestroyData ==
  ASSUME Control, Data, NEW p \in Pids, mmu_client_exit(p) \/ mmu_client_destroy(p)
  PROVE  Data'
<1>1. /\ calls = <<>>
      /\ UNCHANGED <<calls, locker, sec_chance_index, pages, pmem, disk, pte>>
      /\ client' = [client EXCEPT ![p] = "dead"]
      /\ frames' = ReleasedFrames(p)
      /\ blocks' = ReleasedBlocks(p)
      /\ count' = [count EXCEPT ![p] = 0]
  BY FreeLocker DEF mmu_client_exit, mmu_client_destroy, TakeLocker, Served,
     pager_destroy, Control
<1>2. /\ Tables'
      /\ \A q \in PageIds : Listed(q)' <=> Listed(q) /\ q[1] # p
      /\ \A q \in PageIds : Listed(q) /\ q[1] # p =>
           blocks'[pages[q].block_number] = blocks[pages[q].block_number]
  BY <1>1, DestroyTables DEF Data
<1>3. CallsOK'
  BY <1>1 DEF CallsOK
<1>4. MemoryOK'
  <2>1. ASSUME NEW q \in PageIds
        PROVE  /\ ~ Loading(q)' /\ ~ Evicting(q)'
               /\ ~ Loading(q) /\ ~ Evicting(q) /\ ~ Pending({"resident"}, q)
    BY <1>1 DEF Loading, Evicting, Pending
  <2>2. ASSUME NEW q \in PageIds, Reach(q)'
        PROVE  Reach(q) /\ q[1] # p
    BY <1>1, <2>2, PageIdParts DEF Reach, Control, CtlTypes
  <2>3. ASSUME NEW q \in PageIds, Listed(q)'
        PROVE  Listed(q) /\ Backing(q)' = Backing(q)
    BY <1>1, <1>2, <2>3 DEF Backing
  <2> QED
    BY <1>1, <1>2, <2>1, <2>2, <2>3 DEF Data, MemoryOK
<1> QED
  BY <1>1, <1>2, <1>3, <1>4 DEF Data, DataTypes

\* A fault on a resident page: the page becomes dirty, then writable.
LEMMA SegvValidData ==
  ASSUME Control, Data, NEW pg \in PageIds, Listed(pg), ValidTables(pg), calls = <<>>,
         calls' = <<Chprot(pg, "RW")>>, locker' = pg[1],
         UNCHANGED <<pmem, disk, pte, client>>
  PROVE  Data'
<1>1. /\ pages[pg].isvalid = 1
      /\ pages' = [pages EXCEPT ![pg].dirty = 1]
      /\ UNCHANGED <<sec_chance_index, blocks, count>>
  BY DEF ValidTables
<1>2. Tables'
  BY ValidTablesKeep DEF Data
<1>3. /\ pages'[pg].dirty = 1
      /\ pages'[pg].isvalid = 1
      /\ pages'[pg].frame_number = pages[pg].frame_number
      /\ pages'[pg].block_number = pages[pg].block_number
  <2>1. pages[pg] \in Page /\ pages'[pg] = [pages[pg] EXCEPT !.dirty = 1]
    BY <1>1 DEF Data, Tables, TableTypes
  <2> QED
    BY <1>1, <2>1 DEF Page
<1>4. \A q \in PageIds : q # pg => pages'[q] = pages[q]
  BY <1>1 DEF Data, Tables, TableTypes
<1>5. /\ DOMAIN calls' = 1..1
      /\ Len(calls') = 1
      /\ calls'[1].op = "chprot" /\ calls'[1].page = pg /\ calls'[1].prot = "RW"
  BY DEF Chprot
<1>6. CallsOK'
  <2>1. PICK c : c = Chprot(pg, "RW") /\ calls'[1] = c
    BY <1>5
  <2>2. c.op = "chprot" /\ c.page = pg /\ c.prot = "RW"
    BY <2>1 DEF Chprot
  <2>3. Listed(pg)'
    BY <1>1 DEF Listed
  <2>4. CallOK(c)'
    BY <1>3, <1>5, <2>2, <2>3 DEF CallOK, Fills
  <2> QED
    BY <1>5, <2>1, <2>4 DEF CallsOK
<1>7. MemoryOK'
  <2>1. ASSUME NEW q \in PageIds
        PROVE  /\ ~ Loading(q)' /\ ~ Evicting(q)' /\ ~ Pending({"resident"}, q)'
               /\ ~ Loading(q) /\ ~ Evicting(q) /\ ~ Pending({"resident"}, q)
    BY <1>5, NothingPending DEF Loading, Evicting, Pending, Fills
  <2>2. \A q \in PageIds :
          /\ Reach(q)' <=> Reach(q)
          /\ Listed(q)' <=> Listed(q)
          /\ Backing(q)' = Backing(q)
    BY <1>1, <1>3, <1>4 DEF Reach, Listed, Backing
  <2> SUFFICES ASSUME NEW q \in PageIds
      PROVE  /\ Reach(q) =>
                  /\ Listed(q)
                  /\ pte[q].frame = pages'[q].frame_number
                  /\ pages'[q].isvalid = 1
                  /\ pte[q].prot = "RW" => pages'[q].dirty = 1
             /\ Listed(q) /\ pages'[q].isvalid = 1 =>
                  /\ pte[q].frame = pages'[q].frame_number
                  /\ pages'[q].dirty = 0 => pmem[pages'[q].frame_number] = Backing(q)
    BY <2>1, <2>2 DEF MemoryOK
  <2>3. CASE q = pg
    BY <1>1, <1>3, <2>1, <2>3 DEF Data, MemoryOK
  <2>4. CASE q # pg
    BY <1>4, <2>1, <2>4 DEF Data, MemoryOK
  <2> QED
    BY <2>3, <2>4
<1> QED
  BY <1>2, <1>6, <1>7 DEF Data, DataTypes


LEMMA LoadData ==
  ASSUME Control, Data, NEW pg \in PageIds, NEW f \in Frames, Listed(pg),
         pages[pg].isvalid = 0, calls = <<>>, TableTypes', LoadsTables(pg, f),
         UNCHANGED <<pmem, disk, pte, client>>, CallsOK',
         \A q \in PageIds : Loading(q)' <=> q = pg,
         Pending({"resident"}, pg)',
         \A q \in PageIds : Evicting(q)' <=> Evicted(f, q),
         \A q \in PageIds : Evicted(f, q) /\ ~ Pending({"disk_write"}, q)' =>
           pages[q].dirty # 1
  PROVE  Data'
<1>1. Tables'
  BY LoadsTablesKeep DEF Data
<1>2. /\ \A q : Listed(q)' <=> Listed(q)
      /\ pages'[pg].isvalid = 1
      /\ pages'[pg].frame_number = f
      /\ pages'[pg].block_number = pages[pg].block_number
      /\ pages'[pg].dirty = 0
      /\ ~ Evicted(f, pg)
  BY LoadsFacts DEF Data
<1>3. ASSUME NEW q \in PageIds
      PROVE  ~ Loading(q) /\ ~ Evicting(q) /\ ~ Pending({"resident"}, q)
  BY NothingPending
<1>4. \A q \in PageIds : q # pg =>
        /\ pages'[q].frame_number = pages[q].frame_number
        /\ pages'[q].block_number = pages[q].block_number
        /\ pages'[q].dirty = pages[q].dirty
        /\ pages'[q].isvalid = IF Evicted(f, q) THEN 0 ELSE pages[q].isvalid
  BY DEF LoadsTables
<1>5. ASSUME NEW q \in PageIds, q # pg, Listed(q), pages[q].dirty # 1
      PROVE  Backing(q)' = Backing(q)
  BY <1>4, <1>5 DEF Backing, LoadsTables
<1>6. ASSUME NEW q \in PageIds
      PROVE  Reach(q)' <=> Reach(q)
  BY DEF Reach
<1>7. ~ Reach(pg)
  BY <1>3 DEF Data, MemoryOK
<1>8. ASSUME NEW q \in PageIds, Evicted(f, q)
      PROVE  /\ q # pg /\ Listed(q)
             /\ pages[q].isvalid = 1
             /\ pages[q].frame_number = f
             /\ pages[q].dirty \in {0, 1}
  <2>1. q # pg /\ Listed(q) /\ pages[q].isvalid = 1 /\ pages[q].frame_number = f
    BY <1>2, <1>8 DEF Evicted, Data, Tables, FrameOwnership
  <2> QED
    BY <2>1, ListedFacts DEF Data
<1>9. MemoryOK'
  <2> SUFFICES ASSUME NEW q \in PageIds
      PROVE  /\ Reach(q) =>
                  /\ Listed(q)
                  /\ pte[q].frame = pages'[q].frame_number
                  /\ pages'[q].isvalid = 1 \/ Evicted(f, q)
                  /\ q # pg
                  /\ pte[q].prot = "RW" => pages'[q].dirty = 1
             /\ Listed(q) /\ pages'[q].isvalid = 1 /\ q # pg =>
                  /\ pte[q].frame = pages'[q].frame_number
                  /\ pages'[q].dirty = 0 => pmem[pages'[q].frame_number] = Backing(q)'
             /\ Evicted(f, q) /\ ~ Pending({"disk_write"}, q)' =>
                  pages'[q].dirty = 0 /\ pmem[pages'[q].frame_number] = Backing(q)'
    BY <1>2, <1>6 DEF MemoryOK
  <2>1. CASE q = pg
    BY <1>2, <1>7, <2>1
  <2>2. CASE q # pg
    <3>1. Reach(q) =>
            /\ Listed(q)
            /\ pte[q].frame = pages'[q].frame_number
            /\ pages'[q].isvalid = 1 \/ Evicted(f, q)
            /\ pte[q].prot = "RW" => pages'[q].dirty = 1
      BY <1>3, <1>4, <2>2 DEF Data, MemoryOK
    <3>2. Listed(q) /\ pages'[q].isvalid = 1 =>
            /\ pte[q].frame = pages'[q].frame_number
            /\ pages'[q].dirty = 0 => pmem[pages'[q].frame_number] = Backing(q)'
      BY <1>3, <1>4, <1>5, <2>2 DEF Data, MemoryOK
    <3>3. Evicted(f, q) /\ ~ Pending({"disk_write"}, q)' =>
            pages'[q].dirty = 0 /\ pmem[pages'[q].frame_number] = Backing(q)'
      BY <1>3, <1>4, <1>5, <1>8, <2>2 DEF Data, MemoryOK
    <3> QED
      BY <2>2, <3>1, <3>2, <3>3
  <2> QED
    BY <2>1, <2>2
<1> QED
  BY <1>1, <1>9 DEF Data, DataTypes

\* The calls that bring page pg into frame f agree with the tables they leave.
LEMMA LoadingCallsOK ==
  ASSUME Data, NEW pg \in PageIds, NEW f \in Frames, Listed(pg), pages[pg].isvalid = 0,
         LoadsTables(pg, f), locker' = pg[1], NEW bt,
         bt[pages[pg].block_number].used = blocks'[pages[pg].block_number].used,
         NEW c, NEW d, c = Transfer(FillOf(pg, bt), pg, f), d = ResidentCall(pg, f)
  PROVE  /\ CallOK(c)' /\ CallOK(d)'
         /\ c.op \in Fills /\ c.page = pg /\ c.frame = f
         /\ d.op = "resident" /\ d.page = pg
<1>1. /\ Listed(pg)'
      /\ pages'[pg].isvalid = 1
      /\ pages'[pg].frame_number = f
      /\ pages'[pg].block_number = pages[pg].block_number
      /\ pages'[pg].dirty = 0
  BY LoadsFacts DEF Data
<1>2. /\ c.op \in Fills /\ c.page = pg /\ c.frame = f
      /\ c.block = pages[pg].block_number
      /\ c.op = "disk_read" <=> blocks'[c.block].used = 1
  BY DEF Transfer, FillOf, Fills
<1>3. d.op = "resident" /\ d.page = pg /\ d.frame = f /\ d.prot = "READ"
  BY DEF ResidentCall
<1>4. c.op \notin {"chprot", "nonresident", "disk_write", "resident"}
  BY <1>2 DEF Fills
<1>5. CallOK(c)'
  BY <1>1, <1>2, <1>4 DEF CallOK
<1>6. CallOK(d)'
  BY <1>1, <1>3 DEF CallOK, Fills
<1> QED
  BY <1>2, <1>3, <1>5, <1>6

LEMMA SegvFreeData ==
  ASSUME Control, Data, NEW pg \in PageIds, Listed(pg), NEW f \in Frames,
         FreeFrameTables(pg, f), calls = <<>>,
         calls' = LoadCalls(pg, f, blocks), locker' = pg[1],
         UNCHANGED <<pmem, disk, pte, client>>
  PROVE  Data'
<1>1. /\ TableTypes'
      /\ LoadsTables(pg, f)
      /\ \A q : ~ Evicted(f, q)
      /\ UNCHANGED blocks
  BY FreeFrameLoadsTables DEF Data
<1>2. pages[pg].isvalid = 0
  BY DEF FreeFrameTables
<1>3. PICK s : s = LoadCalls(pg, f, blocks)
  OBVIOUS
<1>4. s \in Seq(MmuCall) /\ DOMAIN s = 1..2
  <2>1. s \in Seq(MmuCall) /\ Len(s) = 2
    BY <1>3, LoadCallsShape DEF Data
  <2> QED
    BY <2>1, LenProperties
<1>5. s[1] = Transfer(FillOf(pg, blocks), pg, f) /\ s[2] = ResidentCall(pg, f)
  BY <1>3, LoadCallsShape DEF Data
<1>6. PICK c, d : c = s[1] /\ d = s[2]
  OBVIOUS
<1>7. /\ CallOK(c)' /\ CallOK(d)'
      /\ c.op \in Fills /\ c.page = pg /\ c.frame = f
      /\ d.op = "resident" /\ d.page = pg
  BY <1>1, <1>2, <1>5, <1>6, LoadingCallsOK
<1>8. Rank(c) = 3 /\ Rank(d) = 4
  <2>1. c \in MmuCall /\ d \in MmuCall
    BY <1>4, <1>6, ElementOfSeq, LenProperties
  <2> QED
    BY <1>7, <2>1, RankFacts
<1>9. calls' = s
  BY <1>3
<1>10. CallsOK'
  <2>1. ASSUME NEW j \in DOMAIN calls'
        PROVE  CallOK(calls[j])'
    <3>1. calls'[j] = c \/ calls'[j] = d
      BY <1>4, <1>6, <1>9
    <3> QED
      BY <1>7, <3>1
  <2>2. \A j, k \in DOMAIN calls' : j < k => Rank(calls'[j]) < Rank(calls'[k])
    BY <1>4, <1>6, <1>8, <1>9
  <2>3. \A j \in DOMAIN calls' : Rank(calls[j])' = Rank(calls'[j])
    BY DEF Rank
  <2> QED
    BY <2>1, <2>2, <2>3 DEF CallsOK
<1>11. \A q \in PageIds : Loading(q)' <=> q = pg
  BY <1>4, <1>6, <1>7, <1>9 DEF Loading, Pending, Fills
<1>12. Pending({"resident"}, pg)'
  BY <1>4, <1>6, <1>7, <1>9 DEF Pending
<1>13. \A q \in PageIds : ~ Evicting(q)'
  BY <1>4, <1>6, <1>7, <1>9 DEF Evicting, Pending, Fills
<1> QED
  BY <1>1, <1>2, <1>10, <1>11, <1>12, <1>13, LoadData

\* The ranks of the calls of an eviction, by the place of the call: n protections,
\* the eviction, the copy to disk if there is one, the load and the page.
LEMMA RanksAscend ==
  ASSUME NEW n \in Nat, NEW w \in {0, 1},
         NEW i \in 1..(n + w + 3), NEW j \in 1..(n + w + 3), i < j,
         NEW a, NEW b,
         i \in 1..n => a = 0,
         i = n + 1 => a = 1,
         w = 1 /\ i = n + 2 => a = 2,
         i = n + w + 2 => a = 3,
         i = n + w + 3 => a = 4,
         j \in 1..n => b = 0,
         j = n + 1 => b = 1,
         w = 1 /\ j = n + 2 => b = 2,
         j = n + w + 2 => b = 3,
         j = n + w + 3 => b = 4
  PROVE  a < b \/ (i \in 1..n /\ j \in 1..n)
<1>1. CASE w = 0
  BY <1>1
<1>2. CASE w = 1
  BY <1>2
<1> QED
  BY <1>1, <1>2

LEMMA SegvEvictData ==
  ASSUME Control, Data, NEW pg \in PageIds, Listed(pg), NEW k \in 0..NFrames,
         EvictTables(pg, k), calls = <<>>,
         NEW s \in Seq(MmuCall), calls' = s, CallsOfEvict(s, pg, HandAt(k), blocks'),
         locker' = pg[1], UNCHANGED <<pmem, disk, pte, client>>
  PROVE  Data'
<1>1. PICK v \in Frames : v = HandAt(k)
  BY VictimFacts DEF Data
<1>2. TableTypes' /\ LoadsTables(pg, v)
  BY <1>1, EvictLoadsTables DEF Data
<1>3. pages[pg].isvalid = 0 /\ \A f \in Frames : frames[f].pid # NoPid
  BY DEF EvictTables
<1>4. PICK old \in PageIds : old = frames[v].page
  BY <1>3 DEF Data, Tables, FrameOwnership
<1>5. /\ Listed(old) /\ pages[old].isvalid = 1 /\ pages[old].frame_number = v
      /\ \A q : Evicted(v, q) <=> q = old
  BY <1>3, <1>4 DEF Data, Tables, FrameOwnership, Evicted
<1>6. old # pg
  BY <1>3, <1>5
<1>7. /\ pages'[old].isvalid = 0
      /\ pages'[old].frame_number = v
      /\ pages'[old].block_number = pages[old].block_number
      /\ pages[old].dirty = 1 => blocks'[pages[old].block_number].used = 1
  BY <1>2, <1>5, <1>6 DEF LoadsTables
<1>8. \A q : Listed(q)' <=> Listed(q)
  BY <1>2, <1>3, LoadsFacts DEF Data
<1>9. CallsOfEvict(s, pg, v, blocks')
  BY <1>1
<1>11. PICK n \in Nat, w \in {0, 1} :
         /\ w = 1 <=> WriteBack(v)
         /\ Len(s) = n + w + 3
         /\ \A j \in 1..n : \E f \in Frames : s[j] = Chprot(frames[f].page, "NONE")
         /\ s[n + 1] = Nonresident(old)
         /\ w = 1 => s[n + 2] = Transfer("disk_write", old, v)
         /\ s[n + w + 2] = Transfer(FillOf(pg, blocks'), pg, v)
         /\ s[n + w + 3] = ResidentCall(pg, v)
  BY <1>4, <1>9 DEF CallsOfEvict
<1>12. /\ DOMAIN s = 1..(n + w + 3)
       /\ n + 1 \in DOMAIN s /\ n + w + 2 \in DOMAIN s /\ n + w + 3 \in DOMAIN s
       /\ w = 1 => n + 2 \in DOMAIN s
       /\ \A j \in DOMAIN s : \/ j \in 1..n \/ j = n + 1 \/ (w = 1 /\ j = n + 2)
                              \/ j = n + w + 2 \/ j = n + w + 3
  <2>1. DOMAIN s = 1..(n + w + 3)
    BY <1>11, LenProperties
  <2> QED
    BY <2>1
<1>13. w = 1 <=> pages[old].dirty = 1
  BY <1>4, <1>11 DEF WriteBack
<1>14. calls' = s
  OBVIOUS
<1>15. PICK c, d : c = s[n + w + 2] /\ d = s[n + w + 3]
  OBVIOUS
<1>16. /\ CallOK(c)' /\ CallOK(d)'
       /\ c.op \in Fills /\ c.page = pg /\ c.frame = v
       /\ d.op = "resident" /\ d.page = pg
  BY <1>2, <1>3, <1>11, <1>15, LoadingCallsOK
<1>17. \A j \in 1..n : s[j].op = "chprot" /\ s[j].prot = "NONE" /\ Listed(s[j].page)
  <2> SUFFICES ASSUME NEW j \in 1..n
               PROVE  s[j].op = "chprot" /\ s[j].prot = "NONE" /\ Listed(s[j].page)
    OBVIOUS
  <2>1. PICK f \in Frames : s[j] = Chprot(frames[f].page, "NONE")
    BY <1>11
  <2> QED
    BY <1>3, <2>1 DEF Chprot, Data, Tables, FrameOwnership
<1>18. s[n + 1].op = "nonresident" /\ s[n + 1].page = old /\ s[n + 1].prot = "NONE"
  BY <1>11 DEF Nonresident
<1>19. w = 1 => /\ s[n + 2].op = "disk_write" /\ s[n + 2].page = old
                /\ s[n + 2].frame = v /\ s[n + 2].block = pages[old].block_number
  BY <1>11 DEF Transfer
<1>20. CallsOK'
  <2>1. MakesRoom(old)'
    BY <1>7, <1>12, <1>14, <1>15, <1>16 DEF MakesRoom
  <2>2. ASSUME NEW j \in DOMAIN s, NEW e, e = s[j]
        PROVE  CallOK(e)'
    <3>1. CASE j \in 1..n
      <4>1. e.op = "chprot" /\ e.prot = "NONE" /\ Listed(e.page)'
        BY <1>8, <1>17, <2>2, <3>1
      <4> QED
        BY <4>1 DEF CallOK, Fills
    <3>2. CASE j = n + 1
      <4>1. e.op = "nonresident" /\ e.page = old /\ e.prot = "NONE" /\ Listed(old)'
        BY <1>5, <1>8, <1>18, <2>2, <3>2
      <4> QED
        BY <1>7, <2>1, <4>1 DEF CallOK, Fills
    <3>3. CASE w = 1 /\ j = n + 2
      <4>1. /\ e.op = "disk_write" /\ e.page = old /\ e.frame = v
            /\ e.block = pages[old].block_number /\ Listed(old)'
        BY <1>5, <1>8, <1>19, <2>2, <3>3
      <4> QED
        BY <1>7, <1>13, <2>1, <3>3, <4>1 DEF CallOK, Fills
    <3>4. CASE j = n + w + 2 \/ j = n + w + 3
      BY <1>15, <1>16, <2>2, <3>4
    <3> QED
      BY <1>12, <3>1, <3>2, <3>3, <3>4
  <2>3. ASSUME NEW j \in DOMAIN calls'
        PROVE  CallOK(calls[j])'
    <3>1. PICK e : e = s[j]
      OBVIOUS
    <3> QED
      BY <1>14, <2>2, <3>1
  <2>4. \A j \in DOMAIN s :
          /\ s[j].op = "chprot" <=> Rank(s[j]) = 0
          /\ s[j].op = "nonresident" <=> Rank(s[j]) = 1
          /\ s[j].op = "disk_write" <=> Rank(s[j]) = 2
          /\ s[j].op \in Fills <=> Rank(s[j]) = 3
          /\ s[j].op = "resident" <=> Rank(s[j]) = 4
    <3> SUFFICES ASSUME NEW j \in DOMAIN s
                 PROVE  /\ s[j].op = "chprot" <=> Rank(s[j]) = 0
                        /\ s[j].op = "nonresident" <=> Rank(s[j]) = 1
                        /\ s[j].op = "disk_write" <=> Rank(s[j]) = 2
                        /\ s[j].op \in Fills <=> Rank(s[j]) = 3
                        /\ s[j].op = "resident" <=> Rank(s[j]) = 4
      OBVIOUS
    <3>1. s[j] \in MmuCall
      BY ElementOfSeq, LenProperties
    <3> QED
      BY <3>1, RankFacts
  <2>5. \A j \in 1..n : Rank(s[j]) = 0
    <3>1. \A j \in 1..n : j \in DOMAIN s
      BY <1>12
    <3> QED
      BY <1>17, <2>4, <3>1
  <2>6. /\ Rank(s[n + 1]) = 1
        /\ w = 1 => Rank(s[n + 2]) = 2
    BY <1>12, <1>18, <1>19, <2>4
  <2>7. Rank(s[n + w + 2]) = 3 /\ Rank(s[n + w + 3]) = 4
    BY <1>12, <1>15, <1>16, <2>4
  <2>8. ASSUME NEW i \in DOMAIN s, NEW j \in DOMAIN s, i < j
        PROVE  Rank(s[i]) < Rank(s[j]) \/ (i \in 1..n /\ j \in 1..n)
    <3>1. PICK a, b : a = Rank(s[i]) /\ b = Rank(s[j])
      OBVIOUS
    <3>2. /\ i \in 1..n => a = 0
          /\ i = n + 1 => a = 1
          /\ w = 1 /\ i = n + 2 => a = 2
          /\ i = n + w + 2 => a = 3
          /\ i = n + w + 3 => a = 4
      BY <2>5, <2>6, <2>7, <3>1
    <3>3. /\ j \in 1..n => b = 0
          /\ j = n + 1 => b = 1
          /\ w = 1 /\ j = n + 2 => b = 2
          /\ j = n + w + 2 => b = 3
          /\ j = n + w + 3 => b = 4
      BY <2>5, <2>6, <2>7, <3>1
    <3>4. i \in 1..(n + w + 3) /\ j \in 1..(n + w + 3)
      BY <1>12
    <3>5. n \in Nat /\ w \in {0, 1}
      BY <1>12
    <3>6. a < b \/ (i \in 1..n /\ j \in 1..n)
      BY <2>8, <3>2, <3>3, <3>4, <3>5, RanksAscend
    <3> QED
      BY <3>1, <3>6
  <2>9. \A j \in DOMAIN calls' : Rank(calls[j])' = Rank(s[j])
    BY <1>14 DEF Rank
  <2> QED
    BY <1>14, <1>17, <2>3, <2>8, <2>9 DEF CallsOK
<1>21. ASSUME NEW j \in DOMAIN s
       PROVE  /\ s[j].op \in Fills => s[j].page = pg
              /\ s[j].op = "nonresident" => s[j].page = old
              /\ s[j].op = "disk_write" => s[j].page = old /\ w = 1
  BY <1>12, <1>15, <1>16, <1>17, <1>18, <1>19 DEF Fills
<1>22. \A q \in PageIds : Loading(q)' <=> q = pg
  BY <1>12, <1>14, <1>15, <1>16, <1>21 DEF Loading, Pending
<1>23. Pending({"resident"}, pg)'
  BY <1>12, <1>14, <1>15, <1>16 DEF Pending
<1>24. \A q \in PageIds : Evicting(q)' <=> Evicted(v, q)
  <2>1. \A q \in PageIds : Evicting(q)' <=> q = old
    BY <1>12, <1>14, <1>18, <1>21 DEF Evicting, Pending
  <2> QED
    BY <1>5, <2>1
<1>25. w = 1 => Pending({"disk_write"}, old)'
  BY <1>12, <1>14, <1>19 DEF Pending
<1> QED
  BY <1>2, <1>3, <1>5, <1>13, <1>20, <1>22, <1>23, <1>24, <1>25, LoadData

LEMMA SegvData ==
  ASSUME Control, Data, NEW p \in Pids, mmu_client_segv(p)
  PROVE  Data'
<1>1. PICK pg : pg = <<p, req[p].i>>
  OBVIOUS
<1>2. /\ thr[p] = "lock"
      /\ req[p].type = "SEGV_REQ"
      /\ locker = NoPid
      /\ Listed(pg)
      /\ locker' = pg[1]
      /\ UNCHANGED <<pmem, disk, pte, client>>
  BY <1>1 DEF mmu_client_segv, TakeLocker
<1>3. pg \in PageIds
  <2>1. req[p].i \in Indices
    BY <1>2, RequestParts DEF Control, MessagesOK
  <2> QED
    BY <1>1, <2>1, PageIdOf, SizesAssumption DEF Indices
<1>4. calls = <<>>
  BY <1>2, FreeLocker DEF Control
<1>5. CASE ValidTables(pg) /\ calls' = <<Chprot(pg, "RW")>>
  BY <1>2, <1>3, <1>4, <1>5, SegvValidData
<1>6. CASE \E f \in Frames : FreeFrameTables(pg, f) /\ calls' = LoadCalls(pg, f, blocks)
  BY <1>2, <1>3, <1>4, <1>6, SegvFreeData
<1>7. ASSUME NEW k \in 0..NFrames, EvictTables(pg, k),
             calls' = SwapOutCalls(HandAt(k)) \o LoadCalls(pg, HandAt(k), blocks')
      PROVE  Data'
  <2>1. PICK s : s = SwapOutCalls(HandAt(k)) \o LoadCalls(pg, HandAt(k), blocks')
    OBVIOUS
  <2>2. HandAt(k) \in Frames /\ \A f \in Frames : frames[f].pid # NoPid
    BY <1>2, <1>3, <1>7, VictimFacts DEF Data, EvictTables
  <2>3. s \in Seq(MmuCall) /\ CallsOfEvict(s, pg, HandAt(k), blocks')
    BY <1>2, <1>3, <2>1, <2>2, EvictCallsShape DEF Data
  <2> QED
    BY <1>2, <1>3, <1>4, <1>7, <2>1, <2>3, SegvEvictData
<1> QED
  BY <1>1, <1>5, <1>6, <1>7 DEF mmu_client_segv

LEMMA ClientThreadData ==
  ASSUME Control, Data, NEW p \in Pids, ClientThread(p)
  PROVE  Data'
<1>1. CASE \/ mmu_peek(p) \/ mmu_recv(p) \/ mmu_eof(p)
           \/ mmu_client_create(p) \/ mmu_client_syslog(p)
           \/ mmu_client_segv_unlisted(p) \/ mmu_client_syslog_wild(p)
           \/ mmu_call_send(p) \/ mmu_call_peek(p)
           \/ mmu_call_eof(p) \/ mmu_fault_done(p) \/ mmu_reply(p)
  BY <1>1, QuietData
<1>2. CASE mmu_client_extend(p) \/ mmu_client_exit(p) \/ mmu_client_destroy(p)
  BY <1>2, ExtendData, DestroyData
<1>3. CASE mmu_client_segv(p)
  BY <1>3, SegvData
<1>4. CASE mmu_call_recv(p) \/ mmu_disk_write(p) \/ mmu_fill(p)
  BY <1>4, CallRecvData, DiskWriteData, FillData
<1> QED
  BY <1>1, <1>2, <1>3, <1>4 DEF ClientThread

\* No step of a thread or a program disturbs what Data says.
LEMMA DataNext ==
  ASSUME Control, Data, [SysNext]_sysVars
  PROVE  Data'
<1>1. CASE UNCHANGED sysVars
  <2>1. UNCHANGED <<pagerVars, pmem, disk, pte, client, calls, locker>>
    BY <1>1 DEF sysVars, vars, pagerVars, thrVars
  <2> QED
    BY <2>1, SameData
<1>2. ASSUME NEW p \in Pids, Program(p) \/ Returns(p) \/ UvmThread(p) \/ ClientThread(p)
      PROVE  Data'
  BY <1>2, StoreData, ProgramData, UvmThreadData, ClientThreadData
<1>3. CASE AllDone
  BY <1>1, <1>3 DEF AllDone
<1> QED
  BY <1>1, <1>2, <1>3 DEF SysNext

-----------------------------------------------------------------------------
(* The invariant *)

LEMMA Parts == SysIInv <=> Control /\ Data
<1>1. ASSUME SysIInv
      PROVE  Control /\ Data
  <2>1. CtlTypes
    BY <1>1 DEF SysIInv, SysTypeOK, TypeOK, CtlTypes, Indices
  <2>2. TableTypes /\ DataTypes
    BY <1>1 DEF SysIInv, SysTypeOK, TypeOK, TableTypes, DataTypes
  <2> QED
    BY <1>1, <2>1, <2>2 DEF SysIInv, Control, Data, Tables
<1>2. ASSUME Control, Data
      PROVE  SysIInv
  <2>1. TypeOK
    BY <1>2 DEF Control, CtlTypes, Data, DataTypes, Tables, TableTypes, TypeOK
  <2>2. ASSUME NEW p \in Pids
        PROVE  /\ \A j \in DOMAIN toMmu[p] : toMmu[p][j].type \in Requests
               /\ \A j \in DOMAIN toCli[p] : toCli[p][j].type \in Replies
               /\ locker = p <=> thr[p] \in Serving
    <3>1. toMmu[p] \in Seq(RequestMsg) /\ toCli[p] \in Seq(ReplyMsg)
      BY <1>2 DEF Control, MessagesOK
    <3>2. /\ \A j \in DOMAIN toMmu[p] : toMmu[p][j] \in RequestMsg
          /\ \A j \in DOMAIN toCli[p] : toCli[p][j] \in ReplyMsg
      BY <3>1, ElementOfSeq, LenProperties
    <3>3. locker = p <=> thr[p] \in Serving
      BY <1>2 DEF Control, LockerOK
    <3> QED
      BY <3>2, <3>3, RequestParts, ReplyParts
  <2>3. SysTypeOK
    BY <1>2, <2>1, <2>2 DEF Control, CtlTypes, LockerOK, SysTypeOK, Indices
  <2> QED
    BY <1>2, <2>3 DEF SysIInv, Control, Data, Tables
<1> QED
  BY <1>1, <1>2

-----------------------------------------------------------------------------
(* SysIInv is inductive *)

LEMMA SysInitInv == SysInit => SysIInv
<1> SUFFICES ASSUME SysInit
             PROVE  Control /\ Data
  BY Parts
<1>1. IInv
  BY InitIInv DEF SysInit
<1>2. Tables /\ DataTypes
  BY <1>1, IInvTables DEF IInv, TypeOK, DataTypes
<1>3. CtlTypes
  BY SizesAssumption DEF SysInit, Init, CtlTypes, Indices
<1>4. \A S : <<>> \in Seq(S) /\ DOMAIN <<>> = {}
  OBVIOUS
<1>5. MessagesOK
  BY <1>4 DEF SysInit, MessagesOK
<1>6. LockerOK
  BY MarkersAssumption DEF SysInit, LockerOK, Serving, AtAnswer
<1>7. RoomToExtend /\ ClientOK /\ PeeksOK
  BY DEF SysInit, Init, RoomToExtend, ClientOK, PeeksOK
<1>8. TokensOK
  BY <1>4 DEF SysInit, TokensOK, AtMostOne, Has
<1>9. CallsOK
  BY <1>4 DEF SysInit, CallsOK
<1>10. MemoryOK
  <2>1. \A pg \in PageIds : ~ Listed(pg) /\ pte[pg].prot = "NONE"
    BY PageIdParts DEF SysInit, Init, Listed
  <2>2. \A pg \in PageIds : ~ Evicting(pg)
    BY <1>4 DEF SysInit, Evicting, Pending
  <2> QED
    BY <2>1, <2>2 DEF MemoryOK, Reach
<1> QED
  BY <1>2, <1>3, <1>5, <1>6, <1>7, <1>8, <1>9, <1>10 DEF Control, Data

LEMMA SysNextInv == SysIInv /\ [SysNext]_sysVars => SysIInv'
<1> SUFFICES ASSUME SysIInv, [SysNext]_sysVars
             PROVE  SysIInv'
  OBVIOUS
<1>1. Control /\ Data
  BY Parts
<1>2. Control'
  BY <1>1, ControlNext DEF Data, DataTypes
<1>3. Data'
  BY <1>1, DataNext
<1>4. Control' /\ Data' => SysIInv'
  BY Parts, PTL
<1> QED
  BY <1>2, <1>3, <1>4

-----------------------------------------------------------------------------
(* What follows from it *)

\* A program that can access a page now is one that reaches it.
LEMMA AccessReaches ==
  ASSUME Control, NEW pg \in PageIds, CanAccess(pg)
  PROVE  Reach(pg)
BY PageIdParts DEF CanAccess, Reach, Control, ClientOK

LEMMA InvExclusive == Control /\ Data => TransfersAreExclusive
<1> SUFFICES ASSUME Control, Data,
                    calls # <<>>, Head(calls).op \in Transfers,
                    NEW pg \in PageIds, CanAccess(pg)
             PROVE  pte[pg].frame # Head(calls).frame
  BY DEF TransfersAreExclusive, Transfers
<1>1. PICK c : c = Head(calls)
  OBVIOUS
<1>2. /\ c \in MmuCall /\ c.page \in PageIds /\ CallOK(c)
      /\ 1 \in DOMAIN calls /\ c = calls[1]
  BY <1>1, HeadFirst DEF Data
<1>3. Tables /\ CallsOK
  BY DEF Data
<1>4. /\ Listed(pg) /\ pages[pg].isvalid = 1 /\ ~ Loading(pg)
      /\ pte[pg].frame = pages[pg].frame_number
  <2>1. ~ Evicting(pg)
    BY <1>3, NotBefore
  <2> QED
    BY <2>1, AccessReaches, ReachFacts DEF InFrame
<1>5. CASE c.op = "disk_write"
  <2>1. MakesRoom(c.page) /\ c.frame = pages[c.page].frame_number
    BY <1>2, <1>5 DEF CallOK
  <2>2. PICK r \in PageIds : /\ Listed(r) /\ pages[r].isvalid = 1 /\ Loading(r)
                             /\ pages[r].frame_number = c.frame
    BY <1>3, <2>1, RoomFor
  <2>3. pg # r
    BY <1>4, <2>2
  <2> QED
    BY <1>1, <1>3, <1>4, <2>2, <2>3, OwnFrame
<1>6. CASE c.op \in Fills
  <2>1. /\ Listed(c.page) /\ pages[c.page].isvalid = 1
        /\ c.frame = pages[c.page].frame_number
    BY <1>2, <1>6 DEF CallOK
  <2>2. Loading(c.page)
    BY <1>2, <1>6 DEF Loading, Pending
  <2>3. pg # c.page
    BY <1>4, <2>2
  <2> QED
    BY <1>1, <1>2, <1>3, <1>4, <2>1, <2>3, OwnFrame
<1> QED
  BY <1>1, <1>5, <1>6 DEF Transfers, Fills

LEMMA InvReads == Control /\ Data => ReadsAreCorrect
<1> SUFFICES ASSUME Control, Data, NEW pg \in PageIds, CanAccess(pg)
             PROVE  pmem[pte[pg].frame] = SysContent(pg)
  BY DEF ReadsAreCorrect
<1>1. Reach(pg)
  BY AccessReaches
<1>2. InFrame(pg) /\ ~ Loading(pg) /\ pte[pg].frame = pages[pg].frame_number
  BY <1>1, ReachFacts
<1>3. CASE Pending({"disk_write"}, pg)
  BY <1>2, <1>3 DEF SysContent
<1>4. CASE ~ Pending({"disk_write"}, pg)
  <2>1. SysContent(pg) = Content(pg)
    BY <1>2, <1>4 DEF SysContent, Loading, Fills
  <2>2. CASE pages[pg].isvalid = 1
    BY <1>2, <2>1, <2>2 DEF Content
  <2>3. CASE pages[pg].isvalid # 1
    <3>1. pmem[pages[pg].frame_number] = Backing(pg)
      BY <1>2, <1>4, <2>3 DEF InFrame, Data, MemoryOK
    <3> QED
      BY <1>2, <2>1, <2>3, <3>1 DEF Content
  <2> QED
    BY <2>2, <2>3
<1> QED
  BY <1>3, <1>4

LEMMA InvAssertions == PeeksOK => AssertionsHold
BY DEF PeeksOK, AssertionsHold

LEMMA InvProperties ==
  SysIInv => /\ SysTypeOK
             /\ TransfersAreExclusive
             /\ ReadsAreCorrect
             /\ AssertionsHold
<1>1. SysIInv => SysTypeOK /\ PeeksOK /\ Control /\ Data
  BY Parts DEF SysIInv
<1> QED
  BY <1>1, InvExclusive, InvReads, InvAssertions

-----------------------------------------------------------------------------
(* Theorems of the whole infrastructure.  None of them bounds the number of  *)
(* clients, frames, blocks or pages, the requests a program makes, or which  *)
(* clients are killed (MayDie) and wake up early (MayWakeEarly).             *)

\* The inductive invariant holds in every reachable state.
THEOREM SysInvariance == SysSpec => []SysIInv
BY SysInitInv, SysNextInv, PTL DEF SysSpec

\* Types of tables, threads and messages; `locker' has at most one holder, the
\* thread inside pager_fault, and no MMU call is left to make while it is free.
THEOREM SysTypeCorrect == SysSpec => []SysTypeOK
BY InvProperties, SysInvariance, PTL

\* mmu_disk_write, mmu_disk_read and mmu_zero_fill work on a frame that no
\* program can access at that moment.
THEOREM TransfersExclude == SysSpec => []TransfersAreExclusive
BY InvProperties, SysInvariance, PTL

\* A program reads the contents of its page, in the middle of the faults and
\* evictions of any process.
THEOREM ReadsCorrect == SysSpec => []ReadsAreCorrect
BY InvProperties, SysInvariance, PTL

\* The assertions of mmu.c on the type of the message received hold although
\* two threads read the same socket.
THEOREM PeeksAgree == SysSpec => []AssertionsHold
BY InvProperties, SysInvariance, PTL

\* All three hold whichever clients are killed in the middle of a request.
THEOREM DeathsAreContained == SysSpec => []FaultsAreContained
<1>1. SysIInv => FaultsAreContained
  BY InvProperties DEF FaultsAreContained
<1> QED
  BY <1>1, SysInvariance, PTL

\* The tables stay one-to-one with frames and blocks in every interleaving of
\* the threads, as they do when a call of the pager is one step.
THEOREM SysTablesOwn == SysSpec => [](FrameOwnership /\ BlockOwnership)
<1>1. SysIInv => FrameOwnership /\ BlockOwnership
  BY DEF SysIInv
<1> QED
  BY <1>1, SysInvariance, PTL

-----------------------------------------------------------------------------
(***************************************************************************)
(* What the programs of MmuSystem see.  Threads, sockets and MMU calls     *)
(* together implement PageMemory: one step of a program or of the pager    *)
(* changes a private memory, every other one leaves all of them as they    *)
(* were.  And a program that is not waiting has no request under way.      *)
(***************************************************************************)

-----------------------------------------------------------------------------
(* A step of the threads of p changes nothing of the other clients *)

Alike(q) ==
  /\ app'[q] = app[q] /\ wanted'[q] = wanted[q]
  /\ result'[q] = result[q] /\ npages'[q] = npages[q]
  /\ thr'[q] = thr[q] /\ req'[q] = req[q]
  /\ toMmu'[q] = toMmu[q] /\ toCli'[q] = toCli[q]
  /\ client'[q] = client[q] /\ count'[q] = count[q]

AreFunctions ==
  /\ app = [q \in Pids |-> app[q]] /\ wanted = [q \in Pids |-> wanted[q]]
  /\ result = [q \in Pids |-> result[q]] /\ npages = [q \in Pids |-> npages[q]]
  /\ thr = [q \in Pids |-> thr[q]] /\ req = [q \in Pids |-> req[q]]
  /\ toMmu = [q \in Pids |-> toMmu[q]] /\ toCli = [q \in Pids |-> toCli[q]]
  /\ client = [q \in Pids |-> client[q]] /\ count = [q \in Pids |-> count[q]]

LEMMA TheyAreFunctions ==
  ASSUME Control, Tables
  PROVE  AreFunctions
BY DEF Control, CtlTypes, MessagesOK, Tables, TableTypes, AreFunctions

LEMMA ProgramAlike ==
  ASSUME AreFunctions, NEW p \in Pids, Program(p) \/ Returns(p)
  PROVE  \A q \in Pids : q # p => Alike(q)
<1> USE DEF AreFunctions, Alike, vars, thrVars, cliVars, pagerVars, Put, Take
<1>1. CASE uvm_create(p)
  BY <1>1 DEF uvm_create
<1>2. ASSUME NEW m, Request(p, m)
      PROVE  \A q \in Pids : q # p => Alike(q)
  BY <1>2 DEF Request
<1>3. CASE \/ uvm_extend(p)
           \/ \E i \in Indices : uvm_segv_action(p, i) \/ uvm_syslog(p, i)
  BY <1>2, <1>3 DEF uvm_extend, uvm_segv_action, uvm_syslog
<1>4. CASE \E i \in Indices, v \in Values : Store(p, i, v)
  BY <1>4 DEF Store
<1>5. CASE uvm_exit(p)
  BY <1>5 DEF uvm_exit
<1>6. CASE SpuriousWakeup(p)
  BY <1>6 DEF SpuriousWakeup
<1>7. CASE Die(p)
  BY <1>7 DEF Die
<1>8. CASE uvm_created(p)
  BY <1>8 DEF uvm_created
<1>9. CASE Resume(p)
  BY <1>9 DEF Resume
<1> QED
  BY <1>1, <1>3, <1>4, <1>5, <1>6, <1>7, <1>8, <1>9 DEF Program, Returns, Indices

LEMMA UvmThreadAlike ==
  ASSUME AreFunctions, NEW p \in Pids, UvmThread(p)
  PROVE  \A q \in Pids : q # p => Alike(q)
<1> USE DEF AreFunctions, Alike, vars, thrVars, cliVars, pagerVars, Put, Take
<1>1. \A q \in Pids : q # p => Signalled(p)[q] = app[q]
  BY DEF Signalled
<1>2. CASE uvm_proto_extend_rep(p)
  BY <1>1, <1>2 DEF uvm_proto_extend_rep
<1>3. CASE uvm_proto_syslog_rep(p)
  BY <1>1, <1>3 DEF uvm_proto_syslog_rep
<1>4. CASE uvm_proto_segv_rep(p)
  BY <1>1, <1>4 DEF uvm_proto_segv_rep
<1>5. CASE uvm_proto_remap_rep(p)
  BY <1>5 DEF uvm_proto_remap_rep
<1>6. CASE uvm_proto_chprot_rep(p)
  BY <1>6 DEF uvm_proto_chprot_rep
<1>7. CASE uvm_exit_rep(p)
  BY <1>7 DEF uvm_exit_rep
<1> QED
  BY <1>2, <1>3, <1>4, <1>5, <1>6, <1>7 DEF UvmThread

\* But for the messages of the MMU calls, which go to the process of the page.
LEMMA ClientThreadAlike ==
  ASSUME AreFunctions, NEW p \in Pids, ClientThread(p)
  PROVE  \/ \A q \in Pids : q # p => Alike(q)
         \/ mmu_call_send(p)
         \/ mmu_call_recv(p)
<1> USE DEF AreFunctions, Alike, vars, cliVars, pagerVars, Put, Take
<1>1. CASE mmu_peek(p) \/ mmu_recv(p) \/ mmu_eof(p)
  BY <1>1 DEF mmu_peek, mmu_recv, mmu_eof
<1>2. CASE mmu_client_create(p)
  BY <1>2 DEF mmu_client_create, pager_create, Served
<1>3. CASE mmu_client_extend(p)
  BY <1>3 DEF mmu_client_extend, ExtendTables, Served
<1>4. CASE mmu_client_segv(p)
  <2>1. UNCHANGED <<client, cliVars, toMmu, toCli, req>> /\ thr' = [thr EXCEPT ![p] = "calls"]
    BY <1>4 DEF mmu_client_segv
  <2>2. UNCHANGED count
    BY <1>4 DEF mmu_client_segv, ValidTables, FreeFrameTables, EvictTables
  <2> QED
    BY <2>1, <2>2
<1>5. CASE mmu_client_segv_unlisted(p) \/ mmu_client_syslog_wild(p)
  BY <1>5 DEF mmu_client_segv_unlisted, mmu_client_syslog_wild
<1>6. CASE mmu_client_syslog(p)
  BY <1>6 DEF mmu_client_syslog, Served
<1>7. CASE mmu_client_exit(p) \/ mmu_client_destroy(p)
  BY <1>7 DEF mmu_client_exit, mmu_client_destroy, pager_destroy, Served
<1>8. CASE mmu_call_peek(p) \/ mmu_call_eof(p)
  BY <1>8 DEF mmu_call_peek, mmu_call_eof
<1>9. CASE mmu_disk_write(p) \/ mmu_fill(p)
  BY <1>9 DEF mmu_disk_write, mmu_fill
<1>10. CASE mmu_fault_done(p)
  BY <1>10 DEF mmu_fault_done
<1>11. CASE mmu_reply(p)
  BY <1>11 DEF mmu_reply, Send
<1> QED
  BY <1>1, <1>2, <1>3, <1>4, <1>5, <1>6, <1>7, <1>8, <1>9, <1>10, <1>11 DEF ClientThread

-----------------------------------------------------------------------------
(* Before the pager has created a client *)

LEMMA StartKeep ==
  ASSUME StartOK, NEW p \in Pids, \A q \in Pids : q # p => Alike(q), client'[p] # "none"
  PROVE  StartOK'
BY DEF StartOK, Alike

LEMMA ProgramStart ==
  ASSUME Control, Tables, StartOK, NEW p \in Pids, Program(p) \/ Returns(p)
  PROVE  StartOK'
<1>1. AreFunctions
  BY TheyAreFunctions
<1>2. \A q \in Pids : q # p => Alike(q)
  BY <1>1, ProgramAlike
<1>3. CASE uvm_create(p) /\ client[p] = "none"
  <2>1. /\ app'[p] = "connecting" /\ thr'[p] = "recv"
        /\ toMmu'[p] = Append(toMmu[p], [type |-> "CREATE_REQ"])
        /\ UNCHANGED <<client, count, toCli>>
    BY <1>1, <1>3 DEF uvm_create, Put, vars, AreFunctions
  <2>2. count[p] = 0 /\ toCli[p] = <<>> /\ \A j \in DOMAIN toMmu[p] : toMmu[p][j].type = "CREATE_REQ"
    BY <1>3 DEF StartOK
  <2>3. \A j \in DOMAIN toMmu'[p] : toMmu'[p][j].type = "CREATE_REQ"
    <3>1. toMmu[p] \in Seq(RequestMsg)
      BY DEF Control, MessagesOK
    <3>2. PICK m \in RequestMsg : m = [type |-> "CREATE_REQ"]
      BY DEF RequestMsg, Requests
    <3>3. \A j \in DOMAIN toMmu'[p] : toMmu'[p][j] = m \/ (j \in DOMAIN toMmu[p] /\ toMmu'[p][j] = toMmu[p][j])
      BY <2>1, <3>1, <3>2, AppendFacts
    <3> QED
      BY <2>2, <3>2, <3>3
  <2>4. ASSUME NEW q \in Pids, client'[q] = "none"
        PROVE  /\ count'[q] = 0
               /\ app'[q] \in {"off", "connecting"}
               /\ thr'[q] \in {"off", "recv", "peeked", "lock"}
               /\ thr'[q] \in {"peeked", "lock"} => req'[q].type = "CREATE_REQ"
               /\ \A j \in DOMAIN toMmu'[q] : toMmu'[q][j].type = "CREATE_REQ"
               /\ toCli'[q] = <<>>
    <3>1. CASE q = p
      BY <2>1, <2>2, <2>3, <3>1
    <3>2. CASE q # p
      BY <1>2, <2>4, <3>2 DEF StartOK, Alike
    <3> QED
      BY <3>1, <3>2
  <2> QED
    BY <2>4 DEF StartOK
<1>4. CASE ~ (uvm_create(p) /\ client[p] = "none")
  <2>1. client[p] # "none"
    <3>1. CASE uvm_create(p)
      BY <1>4, <3>1
    <3>2. CASE uvm_created(p)
      BY <3>2 DEF uvm_created, StartOK
    <3>3. CASE ~ uvm_create(p) /\ ~ uvm_created(p)
      <4>1. app[p] \in {"run", "wait", "woken", "joining"}
        BY <3>3 DEF Program, Returns, uvm_extend, uvm_syslog, uvm_segv_action, Request,
           Store, uvm_exit, SpuriousWakeup, Die, Resume
      <4> QED
        BY <4>1 DEF StartOK
    <3> QED
      BY <3>1, <3>2, <3>3
  <2>2. client' \in {client, [client EXCEPT ![p] = "exiting"]}
    BY DEF Program, Returns, uvm_create, uvm_created, uvm_extend, uvm_syslog, uvm_segv_action,
       Request, Store, uvm_exit, SpuriousWakeup, Die, Resume, vars
  <2>3. client'[p] # "none"
    BY <1>1, <2>1, <2>2 DEF AreFunctions
  <2> QED
    BY <1>2, <2>3, StartKeep
<1> QED
  BY <1>3, <1>4

LEMMA UvmThreadStart ==
  ASSUME Control, Tables, StartOK, NEW p \in Pids, UvmThread(p)
  PROVE  StartOK'
<1>1. \A q \in Pids : q # p => Alike(q)
  BY TheyAreFunctions, UvmThreadAlike
<1>2. toCli[p] # <<>> /\ UNCHANGED client
  BY DEF UvmThread, uvm_recv, uvm_proto_extend_rep, uvm_proto_syslog_rep, uvm_proto_segv_rep,
     uvm_proto_remap_rep, uvm_proto_chprot_rep, uvm_exit_rep, vars
<1>3. client[p] # "none"
  BY <1>2 DEF StartOK
<1> QED
  BY <1>1, <1>2, <1>3, StartKeep

\* The process of a call under way has been created.
LEMMA CallsStart ==
  ASSUME Control, Data, StartOK, calls # <<>>
  PROVE  Head(calls).page[1] \in Pids /\ client[Head(calls).page[1]] # "none"
<1>1. PICK pg \in PageIds : pg = Head(calls).page
  BY HeadFirst DEF Data
<1>2. Listed(pg)
  BY <1>1, HeadFirst DEF Data, CallOK
<1>3. pg[1] \in Pids /\ count[pg[1]] # 0
  BY <1>2, PageIdParts DEF Listed
<1> QED
  BY <1>1, <1>3 DEF StartOK

LEMMA CallSendStart ==
  ASSUME Control, Data, StartOK, NEW p \in Pids, mmu_call_send(p)
  PROVE  StartOK'
<1>1. AreFunctions
  BY TheyAreFunctions DEF Data
<1>2. PICK q : q = Head(calls).page[1]
  OBVIOUS
<1>3. /\ thr[p] = "calls" /\ calls # <<>>
      /\ toCli' = toCli \/ \E m : toCli' = Put(toCli, q, m)
      /\ thr' \in {thr, [thr EXCEPT ![p] = "awaiting"]}
      /\ UNCHANGED <<app, client, count, toMmu, req>>
  BY <1>2 DEF mmu_call_send, AtCall, Send, vars, cliVars
<1>4. q \in Pids /\ client[q] # "none"
  BY <1>2, <1>3, CallsStart
<1>5. client[p] # "none"
  BY <1>3 DEF StartOK
<1>6. ASSUME NEW r \in Pids, client[r] = "none"
      PROVE  thr'[r] = thr[r] /\ toCli'[r] = toCli[r]
  BY <1>1, <1>3, <1>4, <1>5, <1>6 DEF AreFunctions, Put
<1> QED
  BY <1>3, <1>6 DEF StartOK

LEMMA CallRecvStart ==
  ASSUME Control, Data, StartOK, NEW p \in Pids, mmu_call_recv(p)
  PROVE  StartOK'
<1>1. AreFunctions
  BY TheyAreFunctions DEF Data
<1>2. PICK q : q = Head(calls).page[1]
  OBVIOUS
<1>3. /\ thr[p] = "answered"
      /\ toMmu' = Take(toMmu, q)
      /\ thr' = [thr EXCEPT ![p] = "calls"]
      /\ UNCHANGED <<app, client, count, toCli, req>>
  BY <1>2 DEF mmu_call_recv, vars, cliVars
<1>4. q \in Pids /\ client[q] # "none"
  BY <1>2, <1>3, AnswerFacts, CallsStart
<1>5. client[p] # "none"
  BY <1>3 DEF StartOK
<1>6. ASSUME NEW r \in Pids, client[r] = "none"
      PROVE  thr'[r] = thr[r] /\ toMmu'[r] = toMmu[r]
  BY <1>1, <1>3, <1>4, <1>5, <1>6 DEF AreFunctions, Take
<1> QED
  BY <1>3, <1>6 DEF StartOK


\* The other steps of the thread of p: before mmu_client_create, it only reads.
LEMMA ClientThreadStart ==
  ASSUME Control, Data, StartOK, NEW p \in Pids, ClientThread(p)
  PROVE  StartOK'
<1>1. AreFunctions
  BY TheyAreFunctions DEF Data
<1>2. CASE mmu_call_send(p)
  BY <1>2, CallSendStart
<1>3. CASE mmu_call_recv(p)
  BY <1>3, CallRecvStart
<1>4. CASE \A q \in Pids : q # p => Alike(q)
  <2>1. CASE client'[p] # "none"
    BY <1>4, <2>1, StartKeep
  <2>2. CASE client'[p] = "none"
    <3>1. client[p] = "none" /\ (mmu_peek(p) \/ mmu_recv(p))
      <4>1. client' \in {client, [client EXCEPT ![p] = "live"], [client EXCEPT ![p] = "dead"]}
        BY DEF ClientThread, mmu_peek, mmu_recv, mmu_eof, mmu_client_create, pager_create,
           mmu_client_extend, mmu_client_segv, mmu_client_segv_unlisted, mmu_client_syslog,
           mmu_client_syslog_wild,
           mmu_client_exit, mmu_client_destroy, pager_destroy, mmu_call_send, mmu_call_peek,
           mmu_call_recv, mmu_call_eof, mmu_disk_write, mmu_fill, mmu_fault_done, mmu_reply, vars
      <4>2. client[p] = "none"
        BY <1>1, <2>2, <4>1 DEF AreFunctions
      <4>3. /\ app[p] \in {"off", "connecting"}
            /\ thr[p] \in {"off", "recv", "peeked", "lock"}
            /\ thr[p] = "lock" => req[p].type = "CREATE_REQ"
        BY <4>2 DEF StartOK
      <4>4. ~ mmu_client_create(p)
        BY <1>1, <2>2 DEF mmu_client_create, pager_create, AreFunctions
      <4> QED
        BY <4>2, <4>3, <4>4 DEF ClientThread, mmu_eof, mmu_client_extend, mmu_client_segv,
           mmu_client_segv_unlisted, mmu_client_syslog, mmu_client_syslog_wild,
           mmu_client_exit, TakeLocker,
           mmu_client_destroy, mmu_call_send, mmu_call_peek, mmu_call_recv, mmu_call_eof,
           mmu_disk_write, mmu_fill, AtCall, mmu_fault_done, mmu_reply
    <3>2. /\ count[p] = 0 /\ app[p] \in {"off", "connecting"} /\ toCli[p] = <<>>
          /\ thr[p] \in {"peeked", "lock"} => req[p].type = "CREATE_REQ"
          /\ \A j \in DOMAIN toMmu[p] : toMmu[p][j].type = "CREATE_REQ"
      BY <3>1 DEF StartOK
    <3>3. /\ count'[p] = 0 /\ app'[p] \in {"off", "connecting"} /\ toCli'[p] = <<>>
          /\ thr'[p] \in {"peeked", "lock"}
          /\ toMmu[p] # <<>>
      BY <1>1, <3>1, <3>2 DEF mmu_peek, mmu_recv, vars, cliVars, AreFunctions
    <3>4. toMmu[p] \in Seq(RequestMsg)
      BY DEF Control, MessagesOK
    <3>5. req'[p].type = "CREATE_REQ"
      <4>1. CASE mmu_peek(p)
        <5>1. Head(toMmu[p]) = toMmu[p][1] /\ 1 \in DOMAIN toMmu[p]
          BY <3>3, <3>4, TailFacts
        <5>2. req'[p] = Head(toMmu[p])
          BY <1>1, <4>1 DEF mmu_peek, AreFunctions
        <5> QED
          BY <3>2, <5>1, <5>2
      <4>2. CASE mmu_recv(p)
        BY <3>2, <4>2 DEF mmu_recv
      <4> QED
        BY <3>1, <4>1, <4>2
    <3>6. toMmu'[p] \in {toMmu[p], Tail(toMmu[p])}
      BY <1>1, <3>1 DEF mmu_peek, mmu_recv, Take, AreFunctions
    <3>7. \A j \in DOMAIN toMmu'[p] : toMmu'[p][j].type = "CREATE_REQ"
      <4>1. \A j \in DOMAIN Tail(toMmu[p]) : Tail(toMmu[p])[j].type = "CREATE_REQ"
        <5>1. /\ Len(toMmu[p]) \in Nat \ {0}
              /\ DOMAIN toMmu[p] = 1..Len(toMmu[p])
              /\ DOMAIN Tail(toMmu[p]) = 1..(Len(toMmu[p]) - 1)
              /\ \A j \in 1..(Len(toMmu[p]) - 1) : Tail(toMmu[p])[j] = toMmu[p][j + 1]
          BY <3>3, <3>4, TailFacts
        <5>2. PICK n \in Nat \ {0} : n = Len(toMmu[p])
          BY <5>1
        <5>3. ASSUME NEW j \in 1..(n - 1)
              PROVE  Tail(toMmu[p])[j] = toMmu[p][j + 1] /\ j + 1 \in 1..n
          BY <5>1, <5>2
        <5> QED
          BY <3>2, <5>1, <5>2, <5>3
      <4> QED
        BY <3>2, <3>6, <4>1
    <3>8. ASSUME NEW q \in Pids, client'[q] = "none"
          PROVE  /\ count'[q] = 0
                 /\ app'[q] \in {"off", "connecting"}
                 /\ thr'[q] \in {"off", "recv", "peeked", "lock"}
                 /\ thr'[q] \in {"peeked", "lock"} => req'[q].type = "CREATE_REQ"
                 /\ \A j \in DOMAIN toMmu'[q] : toMmu'[q][j].type = "CREATE_REQ"
                 /\ toCli'[q] = <<>>
      <4>1. CASE q = p
        BY <3>3, <3>5, <3>7, <4>1
      <4>2. CASE q # p
        BY <1>4, <3>8, <4>2 DEF StartOK, Alike
      <4> QED
        BY <4>1, <4>2
    <3> QED
      BY <3>8 DEF StartOK
  <2> QED
    BY <2>1, <2>2
<1> QED
  BY <1>1, <1>2, <1>3, <1>4, ClientThreadAlike

LEMMA StartInit == SysInit => StartOK
BY DEF SysInit, Init, StartOK

LEMMA StartNext == SysIInv /\ StartOK /\ [SysNext]_sysVars => StartOK'
<1> SUFFICES ASSUME SysIInv, StartOK, [SysNext]_sysVars
             PROVE  StartOK'
  OBVIOUS
<1>1. Control /\ Data /\ Tables
  BY Parts DEF Data
<1>2. CASE UNCHANGED sysVars
  BY <1>2 DEF sysVars, vars, cliVars, thrVars, StartOK
<1> QED
  BY <1>1, <1>2, ProgramStart, UvmThreadStart, ClientThreadStart DEF SysNext, AllDone

\* Nothing is known, or on its way, of a client before mmu_client_create made it.
THEOREM ClientsStartEmpty == SysSpec => []StartOK
<1>1. SysInit => SysIInv
  BY SysInitInv
<1>2. SysIInv /\ [SysNext]_sysVars => SysIInv'
  BY SysNextInv
<1> QED
  BY <1>1, <1>2, StartInit, StartNext, PTL DEF SysSpec

-----------------------------------------------------------------------------
(* What the programs see: who there is, how many pages each has, and what is *)
(* in them.  Nothing else of MmuSystem is in PageMemory.                     *)

\* Nothing that the contents of a page depend on changes.
SamePlaces == UNCHANGED <<blocks, pages, count, pmem, disk, calls, client>>

SameSysContents ==
  \A pg \in PageIds :
    client[pg[1]] = "live" /\ Listed(pg) => SysContent(pg)' = SysContent(pg)

LEMMA SysInvisible ==
  ASSUME SameSysContents, UNCHANGED <<client, count>>
  PROVE  UNCHANGED SM!memVars
<1>1. absStatus' = absStatus /\ absSize' = absSize
  BY DEF absStatus, absSize
<1>2. \A pg \in PageIds : Listed(pg)' <=> Listed(pg)
  BY DEF Listed
<1>3. sysMem' = sysMem
  BY <1>2 DEF sysMem, SameSysContents
<1> QED
  BY <1>1, <1>3 DEF SM!memVars

LEMMA QuietInvisible ==
  ASSUME SamePlaces
  PROVE  UNCHANGED SM!memVars
<1>1. SameSysContents
  BY DEF SamePlaces, SameSysContents, SysContent, Pending, Content, Backing
<1> QED
  BY <1>1, SysInvisible DEF SamePlaces

LEMMA SMPageIds == SM!PageIds = PageIds
BY DEF SM!PageIds, PageIds

\* The two ways sysMem is used: its domain, and its value at a page.
LEMMA SysMemValue ==
  /\ sysMem = [pg \in PageIds |-> sysMem[pg]]
  /\ \A pg \in PageIds :
       sysMem[pg] = IF client[pg[1]] = "live" /\ Listed(pg) THEN SysContent(pg) ELSE Unset
BY DEF sysMem

\* A page with no call under way is where Content says.
LEMMA ContentAtRest ==
  ASSUME calls = <<>>, NEW pg
  PROVE  SysContent(pg) = Content(pg)
BY NothingPending DEF SysContent

-----------------------------------------------------------------------------
LEMMA SysInitRefines == SysInit => SM!Init
<1> SUFFICES ASSUME SysInit PROVE SM!Init
  OBVIOUS
<1>1. absStatus = [p \in Pids |-> "none"]
  BY DEF SysInit, Init, absStatus
<1>2. absSize = [p \in Pids |-> 0]
  BY DEF SysInit, Init, absSize
<1>3. sysMem = [pg \in PageIds |-> Unset]
  BY PageIdParts DEF SysInit, Init, sysMem
<1> QED
  BY <1>1, <1>2, <1>3, SMPageIds DEF SM!Init

LEMMA SysCreateRefines ==
  ASSUME Control, Data, StartOK, NEW p \in Pids, mmu_client_create(p)
  PROVE  SM!Attach(p)
<1>1. /\ client[p] = "none"
      /\ client' = [client EXCEPT ![p] = "live"]
      /\ UNCHANGED <<blocks, pages, count, pmem, disk, pte, calls>>
  BY DEF mmu_client_create, pager_create, Served, tables
<1>2. count[p] = 0
  BY <1>1 DEF StartOK
<1>3. client = [q \in Pids |-> client[q]] /\ count = [q \in Pids |-> count[q]]
  BY TheyAreFunctions DEF Data, AreFunctions
<1>4. absStatus[p] = "none" /\ absStatus' = [absStatus EXCEPT ![p] = "live"]
  BY <1>1, <1>3 DEF absStatus
<1>5. absSize' = absSize
  BY <1>1, <1>2, <1>3 DEF absSize
<1>6. ASSUME NEW pg \in PageIds
      PROVE  sysMem'[pg] = sysMem[pg]
  <2>1. pg[1] \in Pids /\ pg[2] \in Nat
    BY PageIdParts
  <2>2. (client'[pg[1]] = "live" /\ Listed(pg)') <=> (client[pg[1]] = "live" /\ Listed(pg))
    <3>1. CASE pg[1] = p
      BY <1>1, <1>2, <1>3, <2>1, <3>1 DEF Listed
    <3>2. CASE pg[1] # p
      BY <1>1, <1>3, <2>1, <3>2 DEF Listed
    <3> QED
      BY <3>1, <3>2
  <2>3. SysContent(pg)' = SysContent(pg)
    BY <1>1 DEF SysContent, Pending, Content, Backing
  <2> QED
    BY <2>2, <2>3 DEF sysMem
<1>7. sysMem' = sysMem
  <2>1. sysMem' = [pg \in PageIds |-> sysMem'[pg]] /\ sysMem = [pg \in PageIds |-> sysMem[pg]]
    BY DEF sysMem
  <2> QED
    BY <1>6, <2>1
<1> QED
  BY <1>4, <1>5, <1>7 DEF SM!Attach

\* A client that died or called exit before the pager served its uvm_extend
\* gets its page, and nobody sees it.
LEMMA SysExtendRefines ==
  ASSUME Control, Data, StartOK, NEW p \in Pids, mmu_client_extend(p)
  PROVE  SM!Grow(p) \/ UNCHANGED SM!memVars
<1>1. /\ calls = <<>>
      /\ thr[p] = "lock" /\ req[p].type = "EXTEND_REQ"
      /\ UNCHANGED <<pmem, disk, pte, client, calls>>
  BY FreeLocker DEF mmu_client_extend, TakeLocker, Served, Control
<1>2. CASE UNCHANGED pagerVars
  <2>1. SamePlaces
    BY <1>1, <1>2 DEF SamePlaces, pagerVars
  <2> QED
    BY <2>1, QuietInvisible
<1>3. CASE ExtendTables(p) /\ count[p] < MaxPages
  <2>1. PICK b \in Blocks : Extends(p, b)
    BY <1>3, ExtendTablesExtends DEF Data
  <2>2. PICK new \in PageIds : new = <<p, count[p]>> /\ ~ Listed(new)
    BY <2>1 DEF Extends
  <2>3. /\ pages'[new] = NewPage(b)
        /\ \A pg \in PageIds : pg # new => pages'[pg] = pages[pg]
        /\ \A pg \in PageIds : Listed(pg)' <=> Listed(pg) \/ pg = new
        /\ \A c \in Blocks : blocks'[c].used = blocks[c].used
        /\ count' = [count EXCEPT ![p] = @ + 1]
    BY <2>1, <2>2 DEF Extends
  <2>4. ASSUME NEW pg \in PageIds, Listed(pg)
        PROVE  SysContent(pg)' = SysContent(pg)
    <3>1. pages[pg].block_number \in Blocks
      BY <2>4, ListedFacts DEF Data
    <3>2. pages'[pg] = pages[pg]
      BY <2>2, <2>3, <2>4
    <3>3. Content(pg)' = Content(pg)
      BY <1>1, <2>3, <3>1, <3>2 DEF Content, Backing
    <3>4. SysContent(pg) = Content(pg)
      BY <1>1, ContentAtRest
    <3>5. SysContent(pg)' = Content(pg)'
      BY <1>1 DEF SysContent, Pending
    <3> QED
      BY <3>3, <3>4, <3>5
  <2>5. count = [q \in Pids |-> count[q]] /\ client = [q \in Pids |-> client[q]]
    BY TheyAreFunctions DEF Data, AreFunctions
  <2>6. CASE client[p] = "live"
    <3>1. PICK v \in Values : v = SysContent(new)'
      <4>1. pages'[new].block_number = b /\ pages'[new].isvalid = 0
        BY <2>3 DEF NewPage
      <4>2. (IF blocks'[b].used = 1 THEN disk'[b] ELSE Zero) \in Values
        BY <1>1, ValuesAssumption DEF Data, DataTypes
      <4>3. Content(new)' \in Values
        BY <4>1, <4>2 DEF Content, Backing
      <4>4. SysContent(new)' = Content(new)'
        BY <1>1 DEF SysContent, Pending
      <4> QED
        BY <4>3, <4>4
    <3>2. absStatus' = absStatus /\ absStatus[p] = "live"
      BY <1>1, <2>6 DEF absStatus
    <3>3. /\ absSize[p] = count[p]
          /\ absSize' = [absSize EXCEPT ![p] = @ + 1]
      BY <1>1, <2>3, <2>5, <2>6 DEF absSize
    <3>4. sysMem' = [sysMem EXCEPT ![new] = v]
      <4>1. ASSUME NEW pg \in PageIds, pg # new
            PROVE  sysMem'[pg] = sysMem[pg]
        BY <1>1, <2>3, <2>4, <4>1 DEF sysMem
      <4>2. sysMem'[new] = v
        BY <1>1, <2>2, <2>3, <2>6, <3>1 DEF sysMem
      <4>3. sysMem' = [pg \in PageIds |-> sysMem'[pg]] /\ sysMem = [pg \in PageIds |-> sysMem[pg]]
        BY DEF sysMem
      <4> QED
        BY <2>2, <4>1, <4>2, <4>3
    <3> QED
      BY <1>3, <2>2, <3>1, <3>2, <3>3, <3>4 DEF SM!Grow
  <2>7. CASE client[p] # "live"
    <3>1. absStatus' = absStatus
      BY <1>1 DEF absStatus
    <3>2. absSize' = absSize
      BY <1>1, <2>3, <2>5, <2>7 DEF absSize
    <3>3. ASSUME NEW pg \in PageIds
          PROVE  sysMem'[pg] = sysMem[pg]
      <4>1. pg = new => client[pg[1]] # "live"
        BY <2>2, <2>7
      <4> QED
        BY <1>1, <2>3, <2>4, <4>1 DEF sysMem
    <3>4. sysMem' = sysMem
      <4>1. sysMem' = [pg \in PageIds |-> sysMem'[pg]] /\ sysMem = [pg \in PageIds |-> sysMem[pg]]
        BY DEF sysMem
      <4> QED
        BY <3>3, <4>1
    <3> QED
      BY <3>1, <3>2, <3>4 DEF SM!memVars
  <2> QED
    BY <2>6, <2>7
<1> QED
  BY <1>2, <1>3 DEF mmu_client_extend

\* exit and SIGKILL; a client that is killed while its exit is served is gone
\* already.
LEMMA SysLeaveRefines ==
  ASSUME Control, Data, StartOK, NEW p \in Pids, uvm_exit(p) \/ Die(p)
  PROVE  SM!Leave(p) \/ UNCHANGED SM!memVars
<1>1. /\ client' = [client EXCEPT ![p] = "exiting"]
      /\ UNCHANGED <<blocks, pages, count, pmem, disk, calls>>
  BY DEF uvm_exit, Die, pagerVars, thrVars
<1>2. client[p] # "none"
  BY DEF uvm_exit, Die, StartOK
<1>3. client = [q \in Pids |-> client[q]] /\ client[p] \in {"none", "live", "exiting", "dead"}
  BY TheyAreFunctions DEF Data, AreFunctions, Control, CtlTypes
<1>4. client'[p] = "exiting" /\ \A q \in Pids : q # p => client'[q] = client[q]
  BY <1>1, <1>3
<1>5. \A pg \in PageIds : SysContent(pg)' = SysContent(pg) /\ (Listed(pg)' <=> Listed(pg))
  BY <1>1 DEF SysContent, Pending, Content, Backing, Listed
<1>6. absStatus' = [absStatus EXCEPT ![p] = "gone"]
  BY <1>4 DEF absStatus
<1>7. absSize' = [absSize EXCEPT ![p] = 0]
  BY <1>1, <1>4 DEF absSize
<1>8. sysMem' = [pg \in PageIds |-> IF pg[1] = p THEN Unset ELSE sysMem[pg]]
  BY <1>4, <1>5, PageIdParts DEF sysMem
<1>9. CASE client[p] = "live"
  <2>1. absStatus[p] = "live"
    BY <1>9 DEF absStatus
  <2> QED
    BY <1>6, <1>7, <1>8, <2>1, SMPageIds DEF SM!Leave
<1>10. CASE client[p] # "live"
  <2>1. absStatus[p] = "gone" /\ absSize[p] = 0
    BY <1>2, <1>3, <1>10 DEF absStatus, absSize
  <2>2. absStatus' = absStatus /\ absSize' = absSize
    BY <1>6, <1>7, <2>1 DEF absStatus, absSize
  <2>3. sysMem' = sysMem
    BY <1>8, <1>10, PageIdParts DEF sysMem
  <2> QED
    BY <2>2, <2>3 DEF SM!memVars
<1> QED
  BY <1>9, <1>10

LEMMA SysDestroyRefines ==
  ASSUME Control, Data, NEW p \in Pids, mmu_client_exit(p) \/ mmu_client_destroy(p)
  PROVE  UNCHANGED SM!memVars
<1>1. /\ client[p] = "exiting"
      /\ client' = [client EXCEPT ![p] = "dead"]
      /\ blocks' = ReleasedBlocks(p)
      /\ count' = [count EXCEPT ![p] = 0]
      /\ UNCHANGED <<pages, pmem, disk, calls>>
  BY DEF mmu_client_exit, mmu_client_destroy, pager_destroy, Served
<1>2. client = [q \in Pids |-> client[q]] /\ count = [q \in Pids |-> count[q]]
  BY TheyAreFunctions DEF Data, AreFunctions
<1>3. /\ client'[p] = "dead"
      /\ \A q \in Pids : q # p => client'[q] = client[q] /\ count'[q] = count[q]
  BY <1>1, <1>2
<1>4. absStatus' = absStatus /\ absSize' = absSize
  BY <1>1, <1>3 DEF absStatus, absSize
<1>5. \A b \in Blocks : blocks'[b].used = blocks[b].used
  BY <1>1 DEF ReleasedBlocks, Data, Tables, TableTypes, BlockNode
<1>6. ASSUME NEW pg \in PageIds, Listed(pg)
      PROVE  SysContent(pg)' = SysContent(pg)
  <2>1. pages[pg].block_number \in Blocks
    BY <1>6, ListedFacts DEF Data
  <2>2. Content(pg)' = Content(pg) /\ Backing(pg)' = Backing(pg)
    BY <1>1, <1>5, <2>1 DEF Content, Backing
  <2> QED
    BY <1>1, <2>2 DEF SysContent, Pending
<1>7. sysMem' = sysMem
  <2>1. ASSUME NEW pg \in PageIds
        PROVE  /\ (client'[pg[1]] = "live" /\ Listed(pg)') <=>
                    (client[pg[1]] = "live" /\ Listed(pg))
               /\ Listed(pg) => SysContent(pg)' = SysContent(pg)
    <3>1. pg[1] \in Pids
      BY PageIdParts
    <3> QED
      BY <1>1, <1>3, <1>6, <3>1 DEF Listed
  <2> QED
    BY <2>1 DEF sysMem
<1> QED
  BY <1>4, <1>7 DEF SM!memVars

-----------------------------------------------------------------------------
(* Stores *)

\* One page is written out in a fault.
LEMMA OneWritten ==
  ASSUME Control, CallsOK, NEW pg, NEW q,
         Pending({"disk_write"}, pg), Pending({"disk_write"}, q)
  PROVE  pg = q
<1>1. PICK j \in DOMAIN calls : calls[j].op = "disk_write" /\ calls[j].page = pg
  BY DEF Pending
<1>2. PICK k \in DOMAIN calls : calls[k].op = "disk_write" /\ calls[k].page = q
  BY DEF Pending
<1>3. Rank(calls[j]) = 2 /\ Rank(calls[k]) = 2
  BY <1>1, <1>2, CallsTyped, RankFacts
<1>4. ~ (j < k) /\ ~ (k < j)
  <2>1. ASSUME NEW a \in DOMAIN calls, NEW b \in DOMAIN calls, a < b,
               Rank(calls[a]) = 2, Rank(calls[b]) = 2, calls[a].op = "disk_write"
        PROVE  FALSE
    <3>1. Rank(calls[a]) < Rank(calls[b]) \/ calls[a].op = "chprot"
      BY <2>1 DEF CallsOK
    <3>2. ~ (Rank(calls[a]) < Rank(calls[b]))
      BY <2>1
    <3> QED
      BY <2>1, <3>1, <3>2
  <2> QED
    BY <1>1, <1>2, <1>3, <2>1
<1>5. j \in Nat /\ k \in Nat
  BY CallsTyped
<1>6. j = k
  BY <1>4, <1>5
<1> QED
  BY <1>1, <1>2, <1>6

\* The page a disk_write is to save left its frame to another one.
LEMMA WrittenFacts ==
  ASSUME Control, CallsOK, NEW pg, Pending({"disk_write"}, pg)
  PROVE  Listed(pg) /\ pages[pg].isvalid = 0 /\ MakesRoom(pg)
<1>1. PICK j \in DOMAIN calls : calls[j].op = "disk_write" /\ calls[j].page = pg
  BY DEF Pending
<1>2. CallOK(calls[j])
  BY DEF CallsOK
<1> QED
  BY <1>1, <1>2 DEF CallOK

LEMMA LoadingFacts ==
  ASSUME Control, CallsOK, NEW pg, Loading(pg)
  PROVE  Listed(pg) /\ pages[pg].isvalid = 1
<1>1. PICK j \in DOMAIN calls : calls[j].op \in Fills /\ calls[j].page = pg
  BY DEF Loading, Pending
<1>2. CallOK(calls[j])
  BY DEF CallsOK
<1> QED
  BY <1>1, <1>2 DEF CallOK

\* A store reaches the page of its program, whatever fault is under way, and no
\* other one.
LEMMA StoreReaches ==
  ASSUME Control, Data, StartOK, NEW p \in Pids, NEW i \in Indices, NEW v \in Values,
         Store(p, i, v), NEW pg \in PageIds, pg = <<p, i>>
  PROVE  /\ client[p] = "live" /\ Listed(pg)
         /\ SysContent(pg)' = v
         /\ \A q \in PageIds : Listed(q) /\ q # pg => SysContent(q)' = SysContent(q)
<1>1. /\ app[p] = "run"
      /\ pte[pg].prot = "RW"
      /\ pmem' = [pmem EXCEPT ![pte[pg].frame] = v]
      /\ UNCHANGED <<blocks, pages, count, disk, calls, client>>
  BY DEF Store, pagerVars, thrVars
<1>2. client[p] = "live"
  BY <1>1 DEF Control, ClientOK, StartOK
<1>3. Reach(pg)
  BY <1>1, <1>2 DEF Reach
<1>4. PICK f \in Frames : f = pages[pg].frame_number /\ pte[pg].frame = f
  BY <1>3, ReachFacts
<1>5. /\ Listed(pg) /\ ~ Loading(pg) /\ InFrame(pg)
      /\ pages[pg].dirty = 1
      /\ pages[pg].isvalid = 1 \/ Evicting(pg)
  BY <1>1, <1>3, ReachFacts DEF Data, MemoryOK
<1>6. pages[pg].isvalid = 1 \/ Pending({"disk_write"}, pg)
  BY <1>5 DEF Data, MemoryOK
<1>7. pmem'[f] = v /\ \A g \in Frames : g # f => pmem'[g] = pmem[g]
  BY <1>1, <1>4 DEF Data, DataTypes
<1>8. \A o, q : Pending(o, q)' <=> Pending(o, q)
  BY <1>1 DEF Pending
<1>9. SysContent(pg)' = v
  <2>1. CASE Pending({"disk_write"}, pg)
    BY <1>1, <1>4, <1>7, <1>8, <2>1 DEF SysContent
  <2>2. CASE ~ Pending({"disk_write"}, pg)
    <3>1. Content(pg)' = v
      BY <1>1, <1>4, <1>6, <1>7, <2>2 DEF Content
    <3> QED
      BY <1>5, <1>8, <2>2, <3>1 DEF SysContent, Loading, Fills
  <2> QED
    BY <2>1, <2>2
<1>10. ASSUME NEW q \in PageIds, Listed(q), q # pg
       PROVE  SysContent(q)' = SysContent(q)
  <2>1. Backing(q)' = Backing(q)
    BY <1>1 DEF Backing
  <2>2. CASE Pending({"disk_write"}, q)
    <3>1. PICK r \in PageIds :
            /\ Listed(r) /\ pages[r].isvalid = 1 /\ Loading(r)
            /\ pages[r].frame_number = pages[q].frame_number
            /\ pages[q].frame_number \in Frames
      BY <2>2, WrittenFacts, RoomFor DEF Data
    <3>2. pages[q].frame_number # f
      <4>1. ~ Pending({"disk_write"}, pg)
        BY <1>10, <2>2, OneWritten DEF Data
      <4>2. pages[pg].isvalid = 1
        BY <1>6, <4>1
      <4> QED
        BY <1>4, <1>5, <3>1, <4>2, OwnFrame DEF Data
    <3> QED
      BY <1>1, <1>7, <1>8, <2>2, <3>1, <3>2 DEF SysContent
  <2>3. CASE ~ Pending({"disk_write"}, q) /\ Loading(q)
    BY <1>8, <2>1, <2>3 DEF SysContent, Loading, Fills
  <2>4. CASE ~ Pending({"disk_write"}, q) /\ ~ Loading(q)
    <3>1. pages[q].isvalid = 1 => pages[q].frame_number \in Frames \ {f}
      <4> SUFFICES ASSUME pages[q].isvalid = 1
                   PROVE  pages[q].frame_number \in Frames \ {f}
        OBVIOUS
      <4>1. InFrame(q)
        BY <1>10, <2>4 DEF InFrame
      <4>2. pages[q].frame_number \in Frames
        BY <1>10, ListedFacts DEF Data
      <4> QED
        BY <1>4, <1>5, <1>10, <4>1, <4>2, OneInFrame DEF Data
    <3>2. Content(q)' = Content(q)
      BY <1>1, <1>7, <2>1, <3>1 DEF Content
    <3> QED
      BY <1>8, <2>4, <3>2 DEF SysContent, Loading, Fills
  <2> QED
    BY <2>2, <2>3, <2>4
<1> QED
  BY <1>2, <1>5, <1>9, <1>10

LEMMA SysStoreRefines ==
  ASSUME Control, Data, StartOK, NEW p \in Pids, NEW i \in Indices, NEW v \in Values,
         Store(p, i, v)
  PROVE  SM!Store(p, i, v)
<1>1. PICK pg \in PageIds : pg = <<p, i>>
  <2>1. i \in Nat /\ i < MaxPages
    BY SizesAssumption DEF Indices
  <2> QED
    BY <2>1, PageIdOf
<1>2. /\ client[p] = "live" /\ Listed(pg)
      /\ SysContent(pg)' = v
      /\ \A q \in PageIds : Listed(q) /\ q # pg => SysContent(q)' = SysContent(q)
  BY <1>1, StoreReaches
<1>3. UNCHANGED <<count, client>>
  BY DEF Store, pagerVars
<1>4. absStatus' = absStatus /\ absStatus[p] = "live" /\ absSize' = absSize /\ i < absSize[p]
  BY <1>1, <1>2, <1>3 DEF absStatus, absSize, Listed
<1>5. sysMem' = [sysMem EXCEPT ![pg] = v]
  <2>1. \A q \in PageIds : Listed(q)' <=> Listed(q)
    BY <1>3 DEF Listed
  <2>2. \A q \in PageIds : q # pg => sysMem'[q] = sysMem[q]
    BY <1>2, <1>3, <2>1 DEF sysMem
  <2>3. sysMem'[pg] = v
    BY <1>1, <1>2, <1>3, <2>1 DEF sysMem
  <2>4. sysMem' = [q \in PageIds |-> sysMem'[q]] /\ sysMem = [q \in PageIds |-> sysMem[q]]
    BY DEF sysMem
  <2> QED
    BY <2>2, <2>3, <2>4
<1> QED
  BY <1>1, <1>4, <1>5 DEF SM!Store

-----------------------------------------------------------------------------
(* Faults: the change of the tables and every MMU call leave the contents of *)
(* all pages where SysContent looks for them.                                *)

LEMMA ValidInvisible ==
  ASSUME Control, Data, NEW pg \in PageIds, Listed(pg), ValidTables(pg), calls = <<>>,
         calls' = <<Chprot(pg, "RW")>>, UNCHANGED <<pmem, disk, client>>
  PROVE  UNCHANGED SM!memVars
<1>1. \A q : ~ Pending({"disk_write"}, q)' /\ ~ Pending({"disk_read", "zero_fill"}, q)'
  <2>1. \A j \in DOMAIN calls' : calls'[j].op = "chprot"
    BY DEF Chprot
  <2> QED
    BY <2>1 DEF Pending
<1>2. UNCHANGED <<blocks, count>> /\ pages' = [pages EXCEPT ![pg].dirty = 1]
  BY DEF ValidTables
<1>3. ASSUME NEW q \in PageIds
      PROVE  /\ pages'[q].isvalid = pages[q].isvalid
             /\ pages'[q].frame_number = pages[q].frame_number
             /\ pages'[q].block_number = pages[q].block_number
  <2>1. pages[q] \in Page
    BY DEF Data, Tables, TableTypes
  <2>2. pages'[q] \in {pages[q], [pages[q] EXCEPT !.dirty = 1]}
    BY <1>2 DEF Data, Tables, TableTypes
  <2> QED
    BY <2>1, <2>2 DEF Page
<1>4. ASSUME NEW q \in PageIds
      PROVE  SysContent(q)' = SysContent(q)
  <2>1. Content(q)' = Content(q)
    BY <1>2, <1>3 DEF Content, Backing
  <2>2. SysContent(q)' = Content(q)'
    BY <1>1 DEF SysContent
  <2> QED
    BY <2>1, <2>2, ContentAtRest
<1> QED
  BY <1>2, <1>4, SysInvisible DEF SameSysContents

\* Page pg is to be filled in frame f; the page evicted from f, if there is one
\* and it is dirty, is to be written first.
LEMMA LoadInvisible ==
  ASSUME Control, Data, NEW pg \in PageIds, NEW f \in Frames, Listed(pg),
         pages[pg].isvalid = 0, calls = <<>>, LoadsTables(pg, f),
         UNCHANGED <<pmem, disk, client>>,
         \A q \in PageIds : Loading(q)' <=> q = pg,
         \A q \in PageIds : Pending({"disk_write"}, q)' <=> Evicted(f, q) /\ pages[q].dirty = 1
  PROVE  UNCHANGED SM!memVars
<1>1. ~ Evicted(f, pg)
  BY LoadsFacts DEF Data
<1>2. ASSUME NEW q \in PageIds
      PROVE  SysContent(q)' = IF Evicted(f, q) /\ pages[q].dirty = 1
                              THEN pmem'[pages'[q].frame_number]
                              ELSE IF q = pg THEN Backing(q)' ELSE Content(q)'
  <2>1. Pending({"disk_write"}, q)' <=> Evicted(f, q) /\ pages[q].dirty = 1
    OBVIOUS
  <2>2. Pending({"disk_read", "zero_fill"}, q)' <=> q = pg
    BY DEF Loading, Fills
  <2> QED
    BY <2>1, <2>2 DEF SysContent
<1>3. ASSUME NEW q \in PageIds, Listed(q)
      PROVE  SysContent(q)' = SysContent(q)
  <2>1. SysContent(q) = Content(q)
    BY ContentAtRest
  <2>2. pages'[q].block_number = pages[q].block_number
    BY LoadsFacts DEF Data, LoadsTables
  <2>3. blocks'[pages[q].block_number].used =
          IF Evicted(f, q) /\ pages[q].dirty = 1 THEN 1 ELSE blocks[pages[q].block_number].used
    BY <1>3 DEF LoadsTables
  <2>4. ~ (Evicted(f, q) /\ pages[q].dirty = 1) => Backing(q)' = Backing(q)
    BY <2>2, <2>3 DEF Backing
  <2>5. CASE q = pg
    <3>1. Content(q) = Backing(q)
      BY <2>5 DEF Content
    <3> QED
      BY <1>1, <1>2, <2>1, <2>4, <2>5, <3>1
  <2>6. CASE q # pg /\ Evicted(f, q)
    <3>1. pages[q].isvalid = 1 /\ pages[q].frame_number = f /\ pages[q].dirty \in {0, 1}
      BY <1>3, <2>6, ListedFacts DEF Evicted, Data, Tables, FrameOwnership
    <3>2. pages'[q].isvalid = 0 /\ pages'[q].frame_number = f
      BY <2>6, <3>1 DEF LoadsTables
    <3>3. Content(q) = pmem[f]
      BY <3>1 DEF Content
    <3>4. CASE pages[q].dirty = 1
      BY <1>2, <2>1, <2>6, <3>2, <3>3, <3>4
    <3>5. CASE pages[q].dirty = 0
      <4>1. ~ Loading(q)
        BY NothingPending
      <4>2. pmem[f] = Backing(q)
        BY <1>3, <3>1, <3>5, <4>1 DEF Data, MemoryOK
      <4>3. Content(q)' = Backing(q)'
        BY <3>2 DEF Content
      <4> QED
        BY <1>2, <2>1, <2>4, <2>6, <3>3, <3>5, <4>2, <4>3
    <3> QED
      BY <3>1, <3>4, <3>5
  <2>7. CASE q # pg /\ ~ Evicted(f, q)
    <3>1. pages'[q].isvalid = pages[q].isvalid /\ pages'[q].frame_number = pages[q].frame_number
      BY <2>7 DEF LoadsTables
    <3>2. Content(q)' = Content(q)
      BY <2>4, <2>7, <3>1 DEF Content
    <3> QED
      BY <1>2, <2>1, <2>7, <3>2
  <2> QED
    BY <2>5, <2>6, <2>7
<1>4. UNCHANGED count
  BY DEF LoadsTables
<1> QED
  BY <1>3, <1>4, SysInvisible DEF SameSysContents

LEMMA FreeInvisible ==
  ASSUME Control, Data, NEW pg \in PageIds, Listed(pg), NEW f \in Frames,
         FreeFrameTables(pg, f), calls = <<>>,
         calls' = LoadCalls(pg, f, blocks), UNCHANGED <<pmem, disk, client>>
  PROVE  UNCHANGED SM!memVars
<1>1. LoadsTables(pg, f) /\ \A q : ~ Evicted(f, q)
  BY FreeFrameLoadsTables DEF Data
<1>2. pages[pg].isvalid = 0
  BY DEF FreeFrameTables
<1>3. PICK s : s = LoadCalls(pg, f, blocks)
  OBVIOUS
<1>4. DOMAIN s = 1..2
  <2>1. s \in Seq(MmuCall) /\ Len(s) = 2
    BY <1>3, LoadCallsShape DEF Data
  <2> QED
    BY <2>1, LenProperties
<1>5. s[1] = Transfer(FillOf(pg, blocks), pg, f) /\ s[2] = ResidentCall(pg, f)
  BY <1>3, LoadCallsShape DEF Data
<1>6. /\ s[1].op \in Fills /\ s[1].page = pg
      /\ s[2].op = "resident"
  BY <1>5 DEF Transfer, ResidentCall, FillOf, Fills
<1>7. \A q : Loading(q)' <=> q = pg
  BY <1>3, <1>4, <1>6 DEF Loading, Pending, Fills
<1>8. \A q : ~ Pending({"disk_write"}, q)'
  BY <1>3, <1>4, <1>6 DEF Pending, Fills
<1> QED
  BY <1>1, <1>2, <1>7, <1>8, LoadInvisible

LEMMA EvictInvisible ==
  ASSUME Control, Data, NEW pg \in PageIds, Listed(pg), NEW k \in 0..NFrames,
         EvictTables(pg, k), calls = <<>>,
         NEW s \in Seq(MmuCall), calls' = s, CallsOfEvict(s, pg, HandAt(k), blocks'),
         UNCHANGED <<pmem, disk, client>>
  PROVE  UNCHANGED SM!memVars
<1>1. PICK v \in Frames : v = HandAt(k)
  BY VictimFacts DEF Data
<1>2. LoadsTables(pg, v)
  BY <1>1, EvictLoadsTables DEF Data
<1>3. pages[pg].isvalid = 0 /\ \A f \in Frames : frames[f].pid # NoPid
  BY DEF EvictTables
<1>4. PICK old : old = frames[v].page
  OBVIOUS
<1>5. \A q : Evicted(v, q) <=> q = old
  BY <1>3, <1>4 DEF Evicted
<1>6. CallsOfEvict(s, pg, v, blocks')
  BY <1>1
<1>7. PICK n \in Nat, w \in {0, 1} :
        /\ w = 1 <=> WriteBack(v)
        /\ Len(s) = n + w + 3
        /\ \A j \in 1..n : \E f \in Frames : s[j] = Chprot(frames[f].page, "NONE")
        /\ s[n + 1] = Nonresident(old)
        /\ w = 1 => s[n + 2] = Transfer("disk_write", old, v)
        /\ s[n + w + 2] = Transfer(FillOf(pg, blocks'), pg, v)
        /\ s[n + w + 3] = ResidentCall(pg, v)
  BY <1>4, <1>6 DEF CallsOfEvict
<1>8. /\ n + w + 2 \in DOMAIN s
      /\ w = 1 => n + 2 \in DOMAIN s
      /\ \A j \in DOMAIN s : \/ j \in 1..n \/ j = n + 1 \/ (w = 1 /\ j = n + 2)
                             \/ j = n + w + 2 \/ j = n + w + 3
  <2>1. DOMAIN s = 1..(n + w + 3)
    BY <1>7, LenProperties
  <2> QED
    BY <2>1
<1>9. w = 1 <=> pages[old].dirty = 1
  BY <1>4, <1>7 DEF WriteBack
<1>10. /\ \A j \in 1..n : s[j].op = "chprot"
       /\ s[n + 1].op = "nonresident"
       /\ w = 1 => s[n + 2].op = "disk_write" /\ s[n + 2].page = old
       /\ s[n + w + 2].op \in Fills /\ s[n + w + 2].page = pg
       /\ s[n + w + 3].op = "resident"
  <2>1. ASSUME NEW j \in 1..n
        PROVE  s[j].op = "chprot"
    <3>1. PICK f \in Frames : s[j] = Chprot(frames[f].page, "NONE")
      BY <1>7
    <3> QED
      BY <3>1 DEF Chprot
  <2>2. s[n + 1].op = "nonresident"
    BY <1>7 DEF Nonresident
  <2>3. w = 1 => s[n + 2].op = "disk_write" /\ s[n + 2].page = old
    BY <1>7 DEF Transfer
  <2>4. s[n + w + 2].op \in Fills /\ s[n + w + 2].page = pg
    BY <1>7 DEF Transfer, FillOf, Fills
  <2>5. s[n + w + 3].op = "resident"
    BY <1>7 DEF ResidentCall
  <2> QED
    BY <2>1, <2>2, <2>3, <2>4, <2>5
<1>11. \A j \in DOMAIN s :
         /\ s[j].op \in Fills => s[j].page = pg
         /\ s[j].op = "disk_write" => w = 1 /\ s[j].page = old
  BY <1>8, <1>10 DEF Fills
<1>12. \A q \in PageIds : Loading(q)' <=> q = pg
  <2>1. \A q : Loading(q)' <=> \E j \in DOMAIN s : s[j].op \in Fills /\ s[j].page = q
    BY DEF Loading, Pending
  <2> QED
    BY <1>8, <1>10, <1>11, <2>1
<1>13. \A q \in PageIds : Pending({"disk_write"}, q)' <=> (Evicted(v, q) /\ pages[q].dirty = 1)
  <2>1. \A q : Pending({"disk_write"}, q)' <=>
                 \E j \in DOMAIN s : s[j].op = "disk_write" /\ s[j].page = q
    BY DEF Pending
  <2> QED
    BY <1>5, <1>8, <1>9, <1>10, <1>11, <2>1
<1> QED
  BY <1>2, <1>3, <1>12, <1>13, LoadInvisible

LEMMA SegvInvisible ==
  ASSUME Control, Data, NEW p \in Pids, mmu_client_segv(p)
  PROVE  UNCHANGED SM!memVars
<1>1. PICK pg : pg = <<p, req[p].i>>
  OBVIOUS
<1>2. /\ thr[p] = "lock"
      /\ req[p].type = "SEGV_REQ"
      /\ locker = NoPid
      /\ Listed(pg)
      /\ UNCHANGED <<pmem, disk, client>>
  BY <1>1 DEF mmu_client_segv, TakeLocker
<1>3. pg \in PageIds
  <2>1. req[p].i \in Indices
    BY <1>2, RequestParts DEF Control, MessagesOK
  <2> QED
    BY <1>1, <2>1, PageIdOf, SizesAssumption DEF Indices
<1>4. calls = <<>>
  BY <1>2, FreeLocker DEF Control
<1>5. CASE ValidTables(pg) /\ calls' = <<Chprot(pg, "RW")>>
  BY <1>2, <1>3, <1>4, <1>5, ValidInvisible
<1>6. CASE \E f \in Frames : FreeFrameTables(pg, f) /\ calls' = LoadCalls(pg, f, blocks)
  BY <1>2, <1>3, <1>4, <1>6, FreeInvisible
<1>7. ASSUME NEW k \in 0..NFrames, EvictTables(pg, k),
             calls' = SwapOutCalls(HandAt(k)) \o LoadCalls(pg, HandAt(k), blocks')
      PROVE  UNCHANGED SM!memVars
  <2>1. PICK s : s = SwapOutCalls(HandAt(k)) \o LoadCalls(pg, HandAt(k), blocks')
    OBVIOUS
  <2>2. HandAt(k) \in Frames /\ \A f \in Frames : frames[f].pid # NoPid
    BY <1>2, <1>3, <1>7, VictimFacts DEF Data, EvictTables
  <2>3. s \in Seq(MmuCall) /\ CallsOfEvict(s, pg, HandAt(k), blocks')
    BY <1>2, <1>3, <2>1, <2>2, EvictCallsShape DEF Data
  <2> QED
    BY <1>2, <1>3, <1>4, <1>7, <2>1, <2>3, EvictInvisible
<1> QED
  BY <1>1, <1>5, <1>6, <1>7 DEF mmu_client_segv

LEMMA CallRecvInvisible ==
  ASSUME Control, Data, NEW p \in Pids, mmu_call_recv(p)
  PROVE  UNCHANGED SM!memVars
<1>1. /\ calls # <<>> /\ calls' = Tail(calls)
      /\ Head(calls).op \in WaitingCalls
      /\ UNCHANGED <<blocks, pages, count, pmem, disk, client>>
  BY DEF mmu_call_recv, vars, Control, LockerOK, AtAnswer
<1>2. \A q : /\ Pending({"disk_write"}, q)' <=> Pending({"disk_write"}, q)
             /\ Pending({"disk_read", "zero_fill"}, q)' <=> Pending({"disk_read", "zero_fill"}, q)
  <2>1. Head(calls).op \notin {"disk_write"} /\ Head(calls).op \notin {"disk_read", "zero_fill"}
    BY <1>1 DEF WaitingCalls
  <2> QED
    BY <1>1, <2>1, PendingTail
<1>3. SameSysContents
  BY <1>1, <1>2 DEF SameSysContents, SysContent, Content, Backing
<1> QED
  BY <1>1, <1>3, SysInvisible

LEMMA DiskWriteInvisible ==
  ASSUME Control, Data, NEW p \in Pids, mmu_disk_write(p)
  PROVE  UNCHANGED SM!memVars
<1>1. PICK c \in MmuCall : c = Head(calls)
  BY HeadOfCalls DEF mmu_disk_write, AtCall, Control
<1>2. /\ calls # <<>> /\ calls' = Tail(calls)
      /\ c.op = "disk_write"
      /\ disk' = [disk EXCEPT ![c.block] = pmem[c.frame]]
      /\ UNCHANGED <<blocks, pages, count, pmem, client>>
  BY <1>1 DEF mmu_disk_write, AtCall, pagerVars
<1>3. PICK pg \in PageIds : pg = c.page
  BY <1>1, <1>2, HeadFirst DEF Data
<1>4. /\ Listed(pg)
      /\ pages[pg].isvalid = 0
      /\ c.frame = pages[pg].frame_number
      /\ c.block = pages[pg].block_number
      /\ blocks[c.block].used = 1
  BY <1>1, <1>2, <1>3, HeadFirst DEF Data, CallOK
<1>5. c.frame \in Frames /\ c.block \in Blocks
  BY <1>2, CallParts DEF Transfers
<1>6. disk'[c.block] = pmem[c.frame] /\ \A b \in Blocks : b # c.block => disk'[b] = disk[b]
  BY <1>2, <1>5 DEF Data, DataTypes
<1>7. Pending({"disk_write"}, pg)
  BY <1>1, <1>2, <1>3, HeadFirst DEF Data, Pending
<1>8. \A q : Pending({"disk_read", "zero_fill"}, q)' <=> Pending({"disk_read", "zero_fill"}, q)
  BY <1>1, <1>2, PendingTail
<1>9. \A q : ~ Pending({"disk_write"}, q)'
  <2>1. \A j \in DOMAIN calls : j # 1 => calls[j].op \in Fills \cup {"resident"}
    BY <1>1, <1>2, NotBefore DEF Data, Transfers
  <2>2. \A j \in DOMAIN calls' : j + 1 \in DOMAIN calls /\ calls[j + 1] = calls'[j] /\ j + 1 # 1
    BY <1>2, TailCalls
  <2> QED
    BY <2>1, <2>2 DEF Pending, Fills
<1>10. ASSUME NEW q \in PageIds, Listed(q)
       PROVE  SysContent(q)' = SysContent(q)
  <2>1. CASE q = pg
    <3>1. SysContent(q) = pmem[c.frame]
      BY <1>4, <1>7, <2>1 DEF SysContent
    <3>2. ~ Loading(pg)
      BY <1>4, LoadingFacts DEF Data
    <3>3. Content(q)' = disk'[c.block]
      BY <1>2, <1>4, <2>1 DEF Content, Backing
    <3>4. SysContent(q)' = Content(q)'
      BY <1>8, <1>9, <2>1, <3>2 DEF SysContent, Loading, Fills
    <3> QED
      BY <1>6, <3>1, <3>3, <3>4
  <2>2. CASE q # pg
    <3>1. ~ Pending({"disk_write"}, q)
      BY <1>7, <2>2, OneWritten DEF Data
    <3>2. pages[q].block_number \in Blocks \ {c.block}
      BY <1>4, <1>10, <2>2, ListedFacts, OwnBlock DEF Data
    <3>3. Backing(q)' = Backing(q)
      BY <1>2, <1>6, <3>2 DEF Backing
    <3>4. Content(q)' = Content(q)
      BY <1>2, <3>3 DEF Content
    <3> QED
      BY <1>8, <1>9, <3>1, <3>3, <3>4 DEF SysContent
  <2> QED
    BY <2>1, <2>2
<1> QED
  BY <1>2, <1>10, SysInvisible DEF SameSysContents

LEMMA FillInvisible ==
  ASSUME Control, Data, NEW p \in Pids, mmu_fill(p)
  PROVE  UNCHANGED SM!memVars
<1>1. PICK c \in MmuCall : c = Head(calls)
  BY HeadOfCalls DEF mmu_fill, AtCall, Control
<1>2. /\ calls # <<>> /\ calls' = Tail(calls)
      /\ c.op \in Fills
      /\ pmem' = [pmem EXCEPT ![c.frame] = IF c.op = "disk_read" THEN disk[c.block] ELSE Zero]
      /\ UNCHANGED <<blocks, pages, count, disk, client>>
  BY <1>1 DEF mmu_fill, AtCall, pagerVars, Fills
<1>3. PICK pg \in PageIds : pg = c.page
  BY <1>1, <1>2, HeadFirst DEF Data
<1>4. /\ Listed(pg)
      /\ pages[pg].isvalid = 1
      /\ c.frame = pages[pg].frame_number
      /\ c.block = pages[pg].block_number
      /\ c.op = "disk_read" <=> blocks[c.block].used = 1
  BY <1>1, <1>2, <1>3, HeadFirst DEF Data, CallOK
<1>5. c.frame \in Frames
  BY <1>2, CallParts DEF Transfers, Fills
<1>6. pmem'[c.frame] = Backing(pg) /\ \A f \in Frames : f # c.frame => pmem'[f] = pmem[f]
  BY <1>2, <1>4, <1>5 DEF Data, DataTypes, Backing
<1>7. /\ \A q : ~ Pending({"disk_write"}, q)
      /\ \A q : Loading(q) <=> q = pg
      /\ \A q : ~ Pending({"disk_write"}, q)'
      /\ \A q : ~ Loading(q)'
  <2>1. \A j \in DOMAIN calls : j # 1 => calls[j].op = "resident"
    BY <1>1, <1>2, NotBefore DEF Data
  <2>2. 1 \in DOMAIN calls /\ calls[1] = c
    BY <1>1, <1>2, HeadFirst DEF Data
  <2>3. \A j \in DOMAIN calls' : j + 1 \in DOMAIN calls /\ calls[j + 1] = calls'[j] /\ j + 1 # 1
    BY <1>2, TailCalls
  <2>4. \A q : ~ Pending({"disk_write"}, q)
    BY <1>2, <2>1, <2>2 DEF Pending, Fills
  <2>5. \A q : Loading(q) <=> q = pg
    BY <1>2, <1>3, <2>1, <2>2 DEF Loading, Pending, Fills
  <2>6. \A j \in DOMAIN calls' : calls'[j].op = "resident"
    BY <2>1, <2>3
  <2> QED
    BY <2>4, <2>5, <2>6 DEF Loading, Pending, Fills
<1>8. ASSUME NEW q \in PageIds, Listed(q)
      PROVE  SysContent(q)' = SysContent(q)
  <2>1. Backing(q)' = Backing(q)
    BY <1>2 DEF Backing
  <2>2. SysContent(q)' = Content(q)'
    BY <1>7 DEF SysContent, Loading, Fills
  <2>3. CASE q = pg
    <3>1. SysContent(q) = Backing(pg)
      BY <1>7, <2>3 DEF SysContent, Loading, Fills
    <3>2. Content(q)' = pmem'[c.frame]
      BY <1>2, <1>4, <2>3 DEF Content
    <3> QED
      BY <1>6, <2>2, <3>1, <3>2
  <2>4. CASE q # pg
    <3>1. SysContent(q) = Content(q)
      BY <1>7, <2>4 DEF SysContent, Loading, Fills
    <3>2. pages[q].isvalid = 1 => pages[q].frame_number \in Frames \ {c.frame}
      BY <1>4, <1>8, <2>4, ListedFacts, OwnFrame DEF Data
    <3>3. Content(q)' = Content(q)
      BY <1>2, <1>6, <2>1, <3>2 DEF Content
    <3> QED
      BY <2>2, <3>1, <3>3
  <2> QED
    BY <2>3, <2>4
<1> QED
  BY <1>2, <1>8, SysInvisible DEF SameSysContents

-----------------------------------------------------------------------------
(* Every step *)

\* What a step of MmuSystem does to the memories of the programs.
Seen ==
  \/ UNCHANGED SM!memVars
  \/ \E p \in Pids : SM!Attach(p) \/ SM!Grow(p) \/ SM!Leave(p)
  \/ \E p \in Pids, i \in Indices, v \in Values : Store(p, i, v) /\ SM!Store(p, i, v)

LEMMA ProgramSeen ==
  ASSUME Control, Data, StartOK, NEW p \in Pids, Program(p) \/ Returns(p)
  PROVE  Seen
<1>1. CASE \E i \in Indices, v \in Values : Store(p, i, v)
  BY <1>1, SysStoreRefines DEF Seen
<1>2. CASE uvm_exit(p) \/ Die(p)
  BY <1>2, SysLeaveRefines DEF Seen
<1>3. CASE /\ ~ \E i \in Indices, v \in Values : Store(p, i, v)
           /\ ~ (uvm_exit(p) \/ Die(p))
  <2>1. SamePlaces
    BY <1>3 DEF Program, Returns, Indices, uvm_create, uvm_extend, uvm_segv_action,
         uvm_syslog, SpuriousWakeup, uvm_created, Resume, Request,
         vars, thrVars, SamePlaces
  <2> QED
    BY <2>1, QuietInvisible DEF Seen
<1> QED
  BY <1>1, <1>2, <1>3

LEMMA UvmThreadSeen ==
  ASSUME NEW p \in Pids, UvmThread(p)
  PROVE  Seen
<1>1. SamePlaces
  BY DEF UvmThread, uvm_proto_extend_rep, uvm_proto_syslog_rep, uvm_proto_segv_rep,
     uvm_proto_remap_rep, uvm_proto_chprot_rep, uvm_exit_rep, vars, pagerVars, thrVars, SamePlaces
<1> QED
  BY <1>1, QuietInvisible DEF Seen

LEMMA ClientThreadSeen ==
  ASSUME Control, Data, StartOK, NEW p \in Pids, ClientThread(p)
  PROVE  Seen
<1>1. CASE mmu_client_create(p)
  BY <1>1, SysCreateRefines DEF Seen
<1>2. CASE mmu_client_extend(p)
  BY <1>2, SysExtendRefines DEF Seen
<1>3. CASE mmu_client_exit(p) \/ mmu_client_destroy(p)
  BY <1>3, SysDestroyRefines DEF Seen
<1>4. CASE mmu_client_segv(p)
  BY <1>4, SegvInvisible DEF Seen
<1>5. CASE mmu_call_recv(p) \/ mmu_disk_write(p) \/ mmu_fill(p)
  BY <1>5, CallRecvInvisible, DiskWriteInvisible, FillInvisible DEF Seen
<1>6. CASE \/ mmu_peek(p) \/ mmu_recv(p) \/ mmu_eof(p)
           \/ mmu_client_syslog(p) \/ mmu_client_segv_unlisted(p) \/ mmu_client_syslog_wild(p)
           \/ mmu_call_send(p) \/ mmu_call_peek(p) \/ mmu_call_eof(p)
           \/ mmu_fault_done(p) \/ mmu_reply(p)
  <2>1. SamePlaces
    BY <1>6 DEF mmu_peek, mmu_recv, mmu_eof, mmu_client_syslog, mmu_client_segv_unlisted,
       mmu_client_syslog_wild,
       mmu_call_send, AtCall, WaitingCalls, mmu_call_peek, mmu_call_eof, mmu_fault_done,
       mmu_reply, Served, vars, SamePlaces
  <2> QED
    BY <2>1, QuietInvisible DEF Seen
<1> QED
  BY <1>1, <1>2, <1>3, <1>4, <1>5, <1>6 DEF ClientThread

LEMMA SysNextSeen ==
  ASSUME SysIInv, StartOK, [SysNext]_sysVars
  PROVE  Seen
<1>1. Control /\ Data
  BY Parts
<1>2. CASE UNCHANGED sysVars
  <2>1. SamePlaces
    BY <1>2 DEF sysVars, vars, thrVars, SamePlaces
  <2> QED
    BY <2>1, QuietInvisible DEF Seen
<1> QED
  BY <1>1, <1>2, ProgramSeen, UvmThreadSeen, ClientThreadSeen DEF SysNext, AllDone

LEMMA SeenNext == Seen => [SM!Next]_(SM!memVars)
BY DEF Seen, SM!Next, Indices

\* Only at a store does a page that exists get other contents.
LEMMA SeenStores ==
  ASSUME SysTypeOK, Seen
  PROVE  OnlyStoresChange
<1>1. CASE UNCHANGED sysMem
  BY <1>1 DEF OnlyStoresChange
<1>2. ASSUME NEW p \in Pids, SM!Grow(p) PROVE OnlyStoresChange
  <2>1. PICK v : sysMem' = [sysMem EXCEPT ![<<p, absSize[p]>>] = v]
    BY <1>2 DEF SM!Grow
  <2>2. absSize[p] = count[p]
    BY <1>2 DEF SM!Grow, absStatus, absSize
  <2>3. ASSUME NEW pg \in PageIds, sysMem[pg] # Unset
        PROVE  sysMem'[pg] = sysMem[pg]
    <3>1. pg[2] < count[pg[1]] /\ pg[2] \in Nat /\ count[pg[1]] \in Nat
      BY <2>3, PageIdParts, SizesAssumption DEF sysMem, Listed, SysTypeOK, TypeOK
    <3>2. pg # <<p, absSize[p]>>
      BY <2>2, <3>1
    <3> QED
      BY <2>1, <3>2
  <2> QED
    BY <2>3 DEF OnlyStoresChange
<1>3. ASSUME NEW p \in Pids, SM!Leave(p) PROVE OnlyStoresChange
  BY <1>3, SMPageIds DEF SM!Leave, OnlyStoresChange
<1>4. ASSUME NEW p \in Pids, NEW i \in Indices, NEW v \in Values,
             Store(p, i, v), SM!Store(p, i, v)
      PROVE  OnlyStoresChange
  <2>1. sysMem' = [sysMem EXCEPT ![<<p, i>>] = v]
    BY <1>4 DEF SM!Store
  <2>2. ASSUME NEW pg \in PageIds, sysMem'[pg] # sysMem[pg]
        PROVE  Store(pg[1], pg[2], v) /\ sysMem'[pg] = v
    <3>1. pg = <<p, i>> /\ pg \in DOMAIN sysMem
      BY <2>1, <2>2 DEF sysMem
    <3> QED
      BY <1>4, <2>1, <3>1
  <2> QED
    BY <2>2 DEF OnlyStoresChange
<1> QED
  BY <1>1, <1>2, <1>3, <1>4 DEF Seen, SM!memVars, SM!Attach

\* Threads, sockets and MMU calls implement the private memories of PageMemory,
\* and every new value of a page is a store of its own program: no fault, no
\* eviction and no message of another client, dead or alive, changes what a
\* program finds in its pages.
THEOREM SystemRefinement == SysSpec => SystemImplementsPageMemory
<1>1. SysInit => SM!Init
  BY SysInitRefines
<1>2. SysIInv /\ StartOK /\ [SysNext]_sysVars => [SM!Next]_(SM!memVars)
  BY SysNextSeen, SeenNext
<1>3. SysIInv /\ StartOK /\ [SysNext]_sysVars => [OnlyStoresChange]_sysVars
  BY SysNextSeen, SeenStores DEF SysIInv
<1> QED
  BY <1>1, <1>2, <1>3, SysInvariance, ClientsStartEmpty, PTL
     DEF SysSpec, SystemImplementsPageMemory, SM!Spec

-----------------------------------------------------------------------------
(* The requests of the programs *)

Granting(s) == \E j \in DOMAIN s : Grants(s[j])

LEMMA GrantingTail ==
  ASSUME NEW S, NEW s \in Seq(S), s # <<>>, ~ Grants(Head(s))
  PROVE  Granting(Tail(s)) <=> Granting(s)
<1>1. /\ DOMAIN s = 1..Len(s) /\ Len(s) \in Nat \ {0}
      /\ Head(s) = s[1]
      /\ DOMAIN Tail(s) = 1..(Len(s) - 1)
      /\ \A j \in 1..(Len(s) - 1) : Tail(s)[j] = s[j + 1]
  BY TailFacts
<1>2. ASSUME NEW j \in DOMAIN s, Grants(s[j])
      PROVE  j - 1 \in DOMAIN Tail(s) /\ Tail(s)[j - 1] = s[j]
  <2>1. j # 1
    BY <1>1, <1>2
  <2>2. j - 1 \in 1..(Len(s) - 1) /\ (j - 1) + 1 = j
    BY <1>1, <2>1
  <2> QED
    BY <1>1, <2>2
<1>3. ASSUME NEW j \in DOMAIN Tail(s)
      PROVE  j + 1 \in DOMAIN s /\ s[j + 1] = Tail(s)[j]
  BY <1>1
<1> QED
  BY <1>2, <1>3 DEF Granting

LEMMA GrantingAppend ==
  ASSUME NEW S, NEW s \in Seq(S), NEW m \in S
  PROVE  Granting(Append(s, m)) <=> Granting(s) \/ Grants(m)
<1>1. /\ Len(s) \in Nat
      /\ DOMAIN s = 1..Len(s)
      /\ DOMAIN Append(s, m) = 1..(Len(s) + 1)
      /\ \A j \in 1..Len(s) : Append(s, m)[j] = s[j]
      /\ Append(s, m)[Len(s) + 1] = m
  BY AppendFacts
<1>2. \A j \in DOMAIN Append(s, m) :
        \/ j \in DOMAIN s /\ Append(s, m)[j] = s[j]
        \/ Append(s, m)[j] = m
  BY <1>1
<1>3. \A j \in DOMAIN s : j \in DOMAIN Append(s, m) /\ Append(s, m)[j] = s[j]
  BY <1>1
<1>4. Len(s) + 1 \in DOMAIN Append(s, m)
  BY <1>1
<1> QED
  BY <1>1, <1>2, <1>3, <1>4 DEF Granting

LEMMA GrantedParts ==
  ASSUME NEW p
  PROVE  Granted(p) <=> \/ thr[p] = "reply" /\ Grants(req[p])
                        \/ Granting(toCli[p])
                        \/ app[p] = "woken" /\ wanted[p] = "EXTEND_REQ" /\ result[p] # NULL
BY DEF Granted, Granting

\* A grant is a reply to the program.
LEMMA GrantIsReply ==
  ASSUME NEW s, ~ Has(s, ProgramReplies)
  PROVE  ~ Granting(s)
BY DEF Granting, Grants, Has, ProgramReplies, Replies, PagerReplies

LEMMA ReplyTypes ==
  ASSUME NEW a
  PROVE  /\ Reply(a) = "none" \/ a \in {"CREATE_REQ", "EXTEND_REQ", "SYSLOG_REQ", "SEGV_REQ", "EXIT_REQ"}
         /\ Reply(a) \in ProgramReplies =>
              a \in {"CREATE_REQ", "EXTEND_REQ", "SYSLOG_REQ", "SEGV_REQ", "EXIT_REQ"}
         /\ Reply(a) = "CREATE_REP" => a = "CREATE_REQ"
         /\ Reply(a) = "EXTEND_REP" => a = "EXTEND_REQ"
         /\ Reply(a) = "SYSLOG_REP" => a = "SYSLOG_REQ"
         /\ Reply(a) = "SEGV_REP" => a = "SEGV_REQ"
         /\ Reply(a) = "EXIT_REP" => a = "EXIT_REQ"
BY DEF Reply, ProgramReplies, Replies, PagerReplies

\* Who has asked for what.
LEMMA AskedTypes ==
  ASSUME NEW p \in Pids, RequestOK(p)
  PROVE  /\ Asked(p) = "CREATE_REQ" => app[p] = "connecting"
         /\ Asked(p) = "EXIT_REQ" => app[p] = "joining"
         /\ Asked(p) \in {"EXTEND_REQ", "SYSLOG_REQ", "SEGV_REQ"} =>
              app[p] = "wait" /\ wanted[p] = Asked(p)
BY DEF Asked, RequestOK

\* No message of the program is on the sockets.
Clear(p) == ~ Has(toMmu[p], ProgramRequests) /\ ~ Has(toCli[p], ProgramReplies)

LEMMA InThread ==
  ASSUME NEW p \in Pids, RequestOK(p), thr[p] \in {"lock", "reply"} \cup Serving
  PROVE  Clear(p)
BY DEF RequestOK, Clear, Has, Serving

LEMMA NotWaiting ==
  ASSUME Control, NEW p \in Pids, RequestOK(p), app[p] \in {"off", "run", "woken"}
  PROVE  /\ Clear(p)
         /\ thr[p] = IF app[p] = "off" THEN "off" ELSE "recv"
<1>1. Asked(p) = "nothing" /\ Reply(Asked(p)) = "none"
  BY DEF Asked, Reply
<1>2. ~ Has(toMmu[p], ProgramRequests)
  BY <1>1 DEF RequestOK, Has, ProgramRequests, Requests
<1>3. ~ Has(toCli[p], ProgramReplies)
  BY <1>1 DEF RequestOK, Has, ProgramReplies, Replies
<1>4. thr[p] \notin {"destroy", "done", "lock", "reply"} \cup Serving
  <2>1. thr[p] \notin {"destroy", "done"} \cup Serving
    BY <1>1 DEF RequestOK
  <2>2. ASSUME thr[p] = "lock" PROVE FALSE
    <3>1. req[p].type \in Requests /\ req[p].type = "nothing"
      BY <1>1, <2>2, RequestParts DEF Control, MessagesOK, RequestOK
    <3> QED
      BY <3>1 DEF Requests
  <2>3. ASSUME thr[p] = "reply" PROVE FALSE
    <3>1. req[p].type \in Replies /\ req[p].type = "none"
      BY <1>1, <2>3, ReplyParts DEF Control, MessagesOK, RequestOK
    <3> QED
      BY <3>1 DEF Replies
  <2> QED
    BY <2>1, <2>2, <2>3
<1>5. thr[p] # "peeked"
  <2> SUFFICES ASSUME thr[p] = "peeked" PROVE FALSE
    OBVIOUS
  <2>1. /\ toMmu[p] # <<>> /\ Head(toMmu[p]) = req[p]
        /\ req[p] \in RequestMsg /\ req[p].type \notin PagerMessages
        /\ toMmu[p] \in Seq(RequestMsg)
    BY DEF Control, PeeksOK, MessagesOK
  <2>2. 1 \in DOMAIN toMmu[p] /\ toMmu[p][1] = req[p]
    BY <2>1, TailFacts
  <2>3. req[p].type \in ProgramRequests
    BY <2>1, RequestParts DEF ProgramRequests
  <2> QED
    BY <1>2, <2>2, <2>3 DEF Has
<1>6. thr[p] \in {"off", "recv", "peeked", "lock", "reply", "destroy", "done"} \cup Serving
  BY DEF Control, CtlTypes
<1>7. thr[p] \in {"off", "recv"}
  BY <1>4, <1>5, <1>6
<1>8. app[p] = "off" <=> thr[p] = "off"
  BY <1>7 DEF RequestOK, Control, ClientOK
<1> QED
  BY <1>2, <1>3, <1>7, <1>8 DEF Clear

\* Nothing on the sockets is for or of the program.
LEMMA ClearOK ==
  ASSUME NEW p \in Pids, Clear(p)',
         thr'[p] # "destroy",
         thr'[p] = "off" => app'[p] = "off",
         thr'[p] = "lock" => req'[p].type = Asked(p)',
         thr'[p] \in Serving => Asked(p)' = "SEGV_REQ",
         thr'[p] = "reply" => req'[p].type = Reply(Asked(p))',
         thr'[p] = "done" => Asked(p)' = "EXIT_REQ",
         app'[p] \in {"wait", "woken"} => wanted'[p] \in {"EXTEND_REQ", "SYSLOG_REQ", "SEGV_REQ"},
         app'[p] \in {"off", "connecting"} => npages'[p] = 0,
         app'[p] # "joining" => count'[p] = IF Granted(p)' THEN npages'[p] + 1 ELSE npages'[p]
  PROVE  RequestOK(p)'
BY DEF Clear, Has, RequestOK, AtMostOne

\* The program, its thread and its count stay; of the messages of the sockets,
\* only the pager's come and go.
LEMMA RequestKeep ==
  ASSUME NEW p \in Pids, RequestOK(p),
         app'[p] = app[p], wanted'[p] = wanted[p], result'[p] = result[p],
         npages'[p] = npages[p], count'[p] = count[p], req'[p] = req[p],
         thr'[p] = thr[p] \/ (thr[p] \in Serving /\ thr'[p] \in Serving),
         FewerOf(toMmu'[p], toMmu[p], ProgramRequests),
         FewerOf(toCli'[p], toCli[p], ProgramReplies),
         Granting(toCli'[p]) <=> Granting(toCli[p])
  PROVE  RequestOK(p)'
<1>1. Asked(p)' = Asked(p)
  BY DEF Asked
<1>2. Granted(p)' <=> Granted(p)
  <2>1. Granted(p)' <=> \/ thr'[p] = "reply" /\ Grants(req'[p])
                        \/ Granting(toCli'[p])
                        \/ app'[p] = "woken" /\ wanted'[p] = "EXTEND_REQ" /\ result'[p] # NULL
    BY DEF Granted, Granting, Grants
  <2>2. thr'[p] = "reply" <=> thr[p] = "reply"
    BY DEF Serving
  <2> QED
    BY <2>1, <2>2, GrantedParts
<1>3. AtMostOne(toMmu'[p], ProgramRequests) /\ AtMostOne(toCli'[p], ProgramReplies)
  BY DEF RequestOK, FewerOf
<1>4. \A j \in DOMAIN toMmu'[p] : toMmu'[p][j].type \in ProgramRequests =>
        toMmu'[p][j].type = Asked(p) /\ thr'[p] \in {"recv", "peeked"}
  BY DEF RequestOK, FewerOf, Serving
<1>5. \A j \in DOMAIN toCli'[p] : toCli'[p][j].type \in ProgramReplies =>
        /\ toCli'[p][j].type = Reply(Asked(p))
        /\ thr'[p] \in {"recv", "done"}
        /\ ~ Has(toMmu'[p], ProgramRequests)
  BY FewerHas DEF RequestOK, FewerOf, Serving
<1>6. Reply(Asked(p))' = Reply(Asked(p))
  BY <1>1 DEF Reply
<1> QED
  BY <1>1, <1>2, <1>3, <1>4, <1>5, <1>6 DEF RequestOK, Serving

LEMMA RequestAlike ==
  ASSUME NEW p \in Pids, RequestOK(p), Alike(p)
  PROVE  RequestOK(p)'
BY RequestKeep, FewerSame DEF Alike

-----------------------------------------------------------------------------
(* The steps of the program *)

\* A request of a program that runs (or starts).
LEMMA AskRequest ==
  ASSUME Control, NEW p \in Pids, RequestOK(p), app[p] \in {"off", "run"},
         NEW m \in RequestMsg, m.type \in ProgramRequests,
         toMmu'[p] = Append(toMmu[p], m), toCli'[p] = toCli[p], thr'[p] = "recv",
         m.type = Asked(p)',
         app'[p] \in {"connecting", "wait", "joining"},
         app'[p] = "wait" => wanted'[p] \in {"EXTEND_REQ", "SYSLOG_REQ", "SEGV_REQ"},
         app'[p] = "connecting" => app[p] = "off",
         npages'[p] = npages[p], count'[p] = count[p]
  PROVE  RequestOK(p)'
<1>1. Clear(p) /\ thr[p] # "reply"
  BY NotWaiting
<1>2. count[p] = npages[p] /\ ~ Granting(toCli[p])
  BY <1>1, GrantedParts, GrantIsReply DEF RequestOK, Clear
<1>3. ~ Granted(p)'
  BY <1>2 DEF Granted, Granting, Grants
<1>4. toMmu[p] \in Seq(RequestMsg)
  BY DEF Control, MessagesOK
<1>5. /\ AtMostOne(toMmu'[p], ProgramRequests)
      /\ \A j \in DOMAIN toMmu'[p] : toMmu'[p][j].type \in ProgramRequests => toMmu'[p][j] = m
  BY <1>1, <1>4, PutTheOne DEF Clear
<1>6. AtMostOne(toCli'[p], ProgramReplies)
      /\ \A j \in DOMAIN toCli'[p] : toCli'[p][j].type \notin ProgramReplies
  BY <1>1 DEF Clear, Has, AtMostOne
<1>7. app'[p] = "connecting" => npages'[p] = 0
  BY DEF RequestOK
<1> QED
  BY <1>2, <1>3, <1>5, <1>6, <1>7 DEF RequestOK, Serving

LEMMA CreateRequest ==
  ASSUME Control, Tables, NEW p \in Pids, RequestOK(p), uvm_create(p)
  PROVE  RequestOK(p)'
<1>1. AreFunctions
  BY TheyAreFunctions
<1>2. PICK m \in RequestMsg : m = [type |-> "CREATE_REQ"]
  BY DEF RequestMsg, Requests
<1>3. /\ app[p] = "off" /\ app'[p] = "connecting" /\ thr'[p] = "recv"
      /\ toMmu'[p] = Append(toMmu[p], m)
      /\ UNCHANGED <<count, npages, toCli>>
  BY <1>1, <1>2 DEF uvm_create, Put, vars, AreFunctions
<1>4. m.type = "CREATE_REQ" /\ Asked(p)' = "CREATE_REQ"
  BY <1>2, <1>3 DEF Asked
<1> QED
  BY <1>3, <1>4, AskRequest DEF ProgramRequests, Requests, PagerMessages

LEMMA ExitRequest ==
  ASSUME Control, Tables, NEW p \in Pids, RequestOK(p), uvm_exit(p)
  PROVE  RequestOK(p)'
<1>1. AreFunctions
  BY TheyAreFunctions
<1>2. PICK m \in RequestMsg : m = [type |-> "EXIT_REQ"]
  BY DEF RequestMsg, Requests
<1>3. /\ app[p] = "run" /\ app'[p] = "joining"
      /\ toMmu'[p] = Append(toMmu[p], m)
      /\ UNCHANGED <<count, npages, toCli, thr>>
  BY <1>1, <1>2 DEF uvm_exit, Put, pagerVars, thrVars, AreFunctions
<1>4. m.type = "EXIT_REQ" /\ Asked(p)' = "EXIT_REQ"
  BY <1>2, <1>3 DEF Asked
<1>5. thr'[p] = "recv"
  BY <1>3, NotWaiting
<1> QED
  BY <1>3, <1>4, <1>5, AskRequest DEF ProgramRequests, Requests, PagerMessages

LEMMA WaitRequest ==
  ASSUME Control, Tables, NEW p \in Pids, RequestOK(p), NEW m \in RequestMsg, Request(p, m),
         m.type \in {"EXTEND_REQ", "SYSLOG_REQ", "SEGV_REQ"}
  PROVE  RequestOK(p)'
<1>1. AreFunctions
  BY TheyAreFunctions
<1>2. /\ app[p] = "run" /\ app'[p] = "wait" /\ wanted'[p] = m.type
      /\ toMmu'[p] = Append(toMmu[p], m)
      /\ UNCHANGED <<count, npages, toCli, thr>>
  BY <1>1 DEF Request, Put, vars, thrVars, AreFunctions
<1>3. m.type = Asked(p)'
  BY <1>2 DEF Asked
<1>4. thr'[p] = "recv"
  BY <1>2, NotWaiting
<1> QED
  BY <1>2, <1>3, <1>4, AskRequest DEF ProgramRequests, Requests, PagerMessages

\* uvm_create goes on when it has its CREATE_REP: it is the first message, as
\* the pager does not know of a page of this client yet.
LEMMA CreatedRequest ==
  ASSUME Control, Data, NEW p \in Pids, RequestOK(p), uvm_created(p)
  PROVE  RequestOK(p)'
<1>1. AreFunctions
  BY TheyAreFunctions DEF Data
<1>2. /\ app[p] = "connecting" /\ app'[p] = "run"
      /\ toCli[p] # <<>> /\ toCli'[p] = Tail(toCli[p])
      /\ UNCHANGED <<count, npages, toMmu, thr, wanted, result, req>>
  BY <1>1 DEF uvm_created, Take, vars, thrVars, AreFunctions
<1>3. Asked(p) = "CREATE_REQ" /\ Reply(Asked(p)) = "CREATE_REP"
  BY <1>2 DEF Asked, Reply
<1>4. toCli[p] \in Seq(ReplyMsg)
  BY DEF Control, MessagesOK
<1>5. 1 \in DOMAIN toCli[p] /\ Head(toCli[p]) = toCli[p][1] /\ Head(toCli[p]) \in ReplyMsg
  BY <1>2, <1>4, TailFacts
<1>6. ~ Granted(p)
  <2>1. \A j \in DOMAIN toCli[p] : ~ Grants(toCli[p][j])
    BY <1>3 DEF RequestOK, Grants, ProgramReplies, Replies, PagerReplies
  <2>2. ~ (thr[p] = "reply" /\ Grants(req[p]))
    BY <1>3 DEF RequestOK, Grants
  <2> QED
    BY <1>2, <2>1, <2>2 DEF Granted
<1>7. count[p] = 0 /\ npages[p] = 0
  BY <1>2, <1>6 DEF RequestOK
<1>8. Head(toCli[p]).type \in ProgramReplies
  <2>1. ASSUME Head(toCli[p]).type \in PagerReplies
        PROVE  FALSE
    <3>1. /\ calls # <<>> /\ Head(calls).page \in PageIds
          /\ Head(calls).page = <<p, Head(toCli[p]).i>>
      BY <1>2, <2>1, PagerReplyFacts
    <3>2. PICK pg \in PageIds : pg = Head(calls).page
      BY <3>1
    <3>3. Listed(pg) /\ pg[1] = p
      BY <3>1, <3>2, HeadFirst DEF Data, CallOK
    <3> QED
      BY <1>7, <3>3, PageIdParts DEF Listed
  <2> QED
    BY <1>5, <2>1, ReplyParts DEF ProgramReplies
<1>9. thr[p] = "recv" /\ ~ Has(toMmu[p], ProgramRequests)
  <2>1. thr[p] \in {"recv", "done"} /\ ~ Has(toMmu[p], ProgramRequests)
    BY <1>5, <1>8 DEF RequestOK
  <2> QED
    BY <1>3, <2>1 DEF RequestOK
<1>10. ~ Has(Tail(toCli[p]), ProgramReplies)
  BY <1>2, <1>4, <1>8, TakeTheOne DEF RequestOK
<1>11. Clear(p)'
  BY <1>2, <1>9, <1>10 DEF Clear
<1>12. ~ Granted(p)'
  <2>1. ~ Granting(toCli'[p])
    BY <1>2, <1>10, GrantIsReply
  <2> QED
    BY <1>2, <1>9, <2>1 DEF Granted, Granting, Grants
<1> QED
  BY <1>2, <1>7, <1>9, <1>11, <1>12, ClearOK DEF Serving

LEMMA ResumeRequest ==
  ASSUME Control, Tables, NEW p \in Pids, RequestOK(p), Resume(p)
  PROVE  RequestOK(p)'
<1>1. AreFunctions
  BY TheyAreFunctions
<1>2. /\ app[p] = "woken" /\ app'[p] = "run"
      /\ UNCHANGED <<count, toMmu, toCli, thr, wanted, result, req>>
      /\ npages'[p] = IF wanted[p] = "EXTEND_REQ" /\ result[p] # NULL THEN npages[p] + 1 ELSE npages[p]
  BY <1>1 DEF Resume, vars, thrVars, AreFunctions
<1>3. Clear(p) /\ thr[p] = "recv"
  BY <1>2, NotWaiting
<1>4. ~ Granting(toCli[p])
  BY <1>3, GrantIsReply DEF Clear
<1>5. Granted(p) <=> wanted[p] = "EXTEND_REQ" /\ result[p] # NULL
  BY <1>2, <1>3, <1>4, GrantedParts
<1>6. ~ Granted(p)'
  BY <1>2, <1>3, <1>4 DEF Granted, Granting, Grants
<1>7. Clear(p)'
  BY <1>2, <1>3 DEF Clear
<1>8. count'[p] = npages'[p]
  BY <1>2, <1>5 DEF RequestOK
<1> QED
  BY <1>2, <1>3, <1>6, <1>7, <1>8, ClearOK DEF Serving

LEMMA ProgramRequest ==
  ASSUME Control, Data, MayWakeEarly = {}, NEW p \in Pids, RequestOK(p),
         Program(p) \/ Returns(p), app'[p] # "gone"
  PROVE  RequestOK(p)'
<1>1. AreFunctions /\ Tables
  BY TheyAreFunctions DEF Data
<1>2. CASE uvm_create(p)
  BY <1>1, <1>2, CreateRequest
<1>3. CASE uvm_extend(p)
  <2>1. PICK m \in RequestMsg : m = [type |-> "EXTEND_REQ"]
    BY DEF RequestMsg, Requests
  <2> QED
    BY <1>1, <1>3, <2>1, WaitRequest DEF uvm_extend
<1>4. ASSUME NEW i \in Indices, uvm_segv_action(p, i) \/ uvm_syslog(p, i)
      PROVE  RequestOK(p)'
  <2>1. PICK m : /\ m \in {[type |-> "SYSLOG_REQ", i |-> i], [type |-> "SEGV_REQ", i |-> i]}
                 /\ Request(p, m)
    BY <1>4 DEF uvm_segv_action, uvm_syslog
  <2>2. m \in RequestMsg /\ m.type \in {"SYSLOG_REQ", "SEGV_REQ"}
    BY <2>1 DEF RequestMsg
  <2> QED
    BY <1>1, <2>1, <2>2, WaitRequest
<1>5. ASSUME NEW i \in Indices, NEW v \in Values, Store(p, i, v)
      PROVE  RequestOK(p)'
  <2>1. Alike(p)
    BY <1>5 DEF Store, Alike, pagerVars, thrVars
  <2> QED
    BY <2>1, RequestAlike
<1>6. CASE uvm_exit(p)
  BY <1>1, <1>6, ExitRequest
<1>7. ~ SpuriousWakeup(p)
  BY DEF SpuriousWakeup
<1>8. ~ Die(p)
  BY <1>1 DEF Die, AreFunctions
<1>9. CASE uvm_created(p)
  BY <1>9, CreatedRequest
<1>10. CASE Resume(p)
  BY <1>1, <1>10, ResumeRequest
<1> QED
  BY <1>2, <1>3, <1>4, <1>5, <1>6, <1>7, <1>8, <1>9, <1>10 DEF Program, Returns, Indices

-----------------------------------------------------------------------------
(* The steps of uvm_thread *)

\* uvm_thread takes the answer to the request of its program.
LEMMA AnswerTaken ==
  ASSUME Control, NEW p \in Pids, RequestOK(p), toCli[p] # <<>>,
         Head(toCli[p]).type \in ProgramReplies
  PROVE  /\ Head(toCli[p]).type = Reply(Asked(p))
         /\ thr[p] \in {"recv", "done"}
         /\ thr[p] = "done" => Asked(p) = "EXIT_REQ"
         /\ ~ Has(toMmu[p], ProgramRequests)
         /\ ~ Has(Tail(toCli[p]), ProgramReplies)
         /\ Granting(toCli[p]) <=> Grants(Head(toCli[p]))
<1>1. toCli[p] \in Seq(ReplyMsg)
  BY DEF Control, MessagesOK
<1>2. 1 \in DOMAIN toCli[p] /\ Head(toCli[p]) = toCli[p][1]
  BY <1>1, TailFacts
<1>3. ~ Has(Tail(toCli[p]), ProgramReplies)
  BY <1>1, TakeTheOne DEF RequestOK
<1>4. ~ Granting(Tail(toCli[p]))
  BY <1>3, GrantIsReply
<1>5. Granting(toCli[p]) <=> Grants(Head(toCli[p]))
  BY <1>1, <1>2, <1>4, GrantingTail DEF Granting
<1> QED
  BY <1>2, <1>3, <1>5 DEF RequestOK

LEMMA SignalRequest ==
  ASSUME Control, Tables, NEW p \in Pids, RequestOK(p),
         \/ uvm_proto_extend_rep(p)
         \/ uvm_proto_syslog_rep(p)
         \/ uvm_proto_segv_rep(p)
  PROVE  RequestOK(p)'
<1>1. AreFunctions
  BY TheyAreFunctions
<1>2. PICK x : x = Head(toCli[p])
  OBVIOUS
<1>3. /\ toCli[p] # <<>>
      /\ x.type \in {"EXTEND_REP", "SYSLOG_REP", "SEGV_REP"}
      /\ app' = Signalled(p)
      /\ toCli'[p] = Tail(toCli[p])
      /\ x.type = "EXTEND_REP" => result' = [result EXCEPT ![p] = x.i]
      /\ UNCHANGED <<wanted, npages, count, toMmu, thr, req>>
  BY <1>1, <1>2 DEF uvm_proto_extend_rep, uvm_proto_syslog_rep, uvm_proto_segv_rep, uvm_recv,
     Take, vars, thrVars, AreFunctions
<1>4. x.type \in ProgramReplies
  BY <1>3 DEF ProgramReplies, Replies, PagerReplies
<1>5. /\ x.type = Reply(Asked(p))
      /\ thr[p] \in {"recv", "done"}
      /\ thr[p] = "done" => Asked(p) = "EXIT_REQ"
      /\ ~ Has(toMmu[p], ProgramRequests)
      /\ ~ Has(Tail(toCli[p]), ProgramReplies)
      /\ Granting(toCli[p]) <=> Grants(x)
  BY <1>2, <1>3, <1>4, AnswerTaken
<1>6. /\ Asked(p) \in {"EXTEND_REQ", "SYSLOG_REQ", "SEGV_REQ"}
      /\ x.type = "EXTEND_REP" <=> Asked(p) = "EXTEND_REQ"
  BY <1>3, <1>5, ReplyTypes DEF Reply
<1>7. app[p] = "wait" /\ wanted[p] = Asked(p) /\ thr[p] = "recv"
  BY <1>5, <1>6, AskedTypes
<1>8. app'[p] = "woken"
  BY <1>1, <1>3, <1>7 DEF Signalled, AreFunctions
<1>9. Clear(p)'
  BY <1>3, <1>5 DEF Clear
<1>10. Granted(p) <=> Grants(x)
  BY <1>5, <1>7, GrantedParts
<1>11. Granted(p)' <=> wanted[p] = "EXTEND_REQ" /\ result'[p] # NULL
  <2>1. ~ Granting(toCli'[p])
    BY <1>3, <1>5, GrantIsReply
  <2> QED
    BY <1>3, <1>7, <1>8, <2>1 DEF Granted, Granting, Grants
<1>12. Granted(p)' <=> Granted(p)
  <2>1. Grants(x) <=> x.type = "EXTEND_REP" /\ x.i # NULL
    BY DEF Grants
  <2>2. x.type = "EXTEND_REP" => result'[p] = x.i
    BY <1>1, <1>3 DEF AreFunctions
  <2> QED
    BY <1>6, <1>7, <1>10, <1>11, <2>1, <2>2
<1>13. /\ thr'[p] = "recv" /\ npages'[p] = npages[p] /\ count'[p] = count[p]
       /\ wanted'[p] \in {"EXTEND_REQ", "SYSLOG_REQ", "SEGV_REQ"}
  BY <1>3, <1>6, <1>7
<1>14. count'[p] = IF Granted(p)' THEN npages'[p] + 1 ELSE npages'[p]
  BY <1>7, <1>12, <1>13 DEF RequestOK
<1> QED
  BY <1>8, <1>9, <1>13, <1>14, ClearOK DEF Serving

LEMMA MappingRequest ==
  ASSUME Control, Tables, NEW p \in Pids, RequestOK(p),
         uvm_proto_remap_rep(p) \/ uvm_proto_chprot_rep(p)
  PROVE  RequestOK(p)'
<1>1. AreFunctions
  BY TheyAreFunctions
<1>2. PICK m : /\ m \in {[type |-> "REMAP_REQ"], [type |-> "CHPROT_REQ"]}
               /\ toMmu' = Put(toMmu, p, m)
  BY DEF uvm_proto_remap_rep, uvm_proto_chprot_rep
<1>3. m \in RequestMsg /\ m.type \notin ProgramRequests
  BY <1>2 DEF RequestMsg, Requests, ProgramRequests, PagerMessages
<1>4. /\ toCli[p] # <<>> /\ Head(toCli[p]).type \in PagerReplies
      /\ toCli'[p] = Tail(toCli[p]) /\ toMmu'[p] = Append(toMmu[p], m)
      /\ UNCHANGED <<app, wanted, result, npages, count, thr, req>>
  BY <1>1, <1>2 DEF uvm_proto_remap_rep, uvm_proto_chprot_rep, uvm_recv, PagerReplies,
     Take, Put, pagerVars, cliVars, thrVars, AreFunctions
<1>5. toMmu[p] \in Seq(RequestMsg) /\ toCli[p] \in Seq(ReplyMsg)
  BY DEF Control, MessagesOK
<1>6. FewerOf(toMmu'[p], toMmu[p], ProgramRequests)
  BY <1>3, <1>4, <1>5, FewerAppend
<1>7. FewerOf(toCli'[p], toCli[p], ProgramReplies)
  BY <1>4, <1>5, FewerTail
<1>8. Granting(toCli'[p]) <=> Granting(toCli[p])
  <2>1. ~ Grants(Head(toCli[p]))
    BY <1>4 DEF Grants, PagerReplies
  <2> QED
    BY <1>4, <1>5, <2>1, GrantingTail
<1> QED
  BY <1>4, <1>6, <1>7, <1>8, RequestKeep

LEMMA UvmThreadRequest ==
  ASSUME Control, Tables, NEW p \in Pids, RequestOK(p), UvmThread(p), app'[p] # "gone"
  PROVE  RequestOK(p)'
<1>1. ~ uvm_exit_rep(p)
  BY TheyAreFunctions DEF uvm_exit_rep, AreFunctions
<1> QED
  BY <1>1, SignalRequest, MappingRequest DEF UvmThread

-----------------------------------------------------------------------------
(* The steps of mmu_client_thread *)

LEMMA PeekRequest ==
  ASSUME Control, Tables, NEW p \in Pids, RequestOK(p), mmu_peek(p) \/ mmu_recv(p)
  PROVE  RequestOK(p)'
<1>1. AreFunctions
  BY TheyAreFunctions
<1>2. PICK m : m = Head(toMmu[p])
  OBVIOUS
<1>3. toMmu[p] \in Seq(RequestMsg)
  BY DEF Control, MessagesOK
<1>4. toMmu[p] # <<>> /\ m.type \notin PagerMessages /\ (mmu_recv(p) => req[p] = m)
  BY <1>2 DEF mmu_peek, mmu_recv, Control, PeeksOK, MessagesOK
<1>5. 1 \in DOMAIN toMmu[p] /\ toMmu[p][1] = m /\ m.type \in ProgramRequests
  <2>1. 1 \in DOMAIN toMmu[p] /\ toMmu[p][1] = m /\ m \in RequestMsg
    BY <1>2, <1>3, <1>4, TailFacts
  <2> QED
    BY <1>4, <2>1, RequestParts DEF ProgramRequests
<1>6. m.type = Asked(p) /\ ~ Has(toCli[p], ProgramReplies)
  BY <1>5 DEF RequestOK, Has
<1>7. ~ Granting(toCli[p])
  BY <1>6, GrantIsReply
<1>8. UNCHANGED <<app, wanted, result, npages, count, toCli>> /\ Asked(p)' = Asked(p)
  BY DEF mmu_peek, mmu_recv, vars, cliVars, Asked
<1>9. thr[p] \in {"recv", "peeked"} /\ thr'[p] \in {"peeked", "lock"}
  BY <1>1 DEF mmu_peek, mmu_recv, AreFunctions
<1>10. Granted(p)' <=> Granted(p)
  BY <1>7, <1>8, <1>9 DEF Granted, Granting, Grants
<1>11. CASE mmu_peek(p)
  <2>1. toMmu' = toMmu /\ thr'[p] = "peeked" /\ thr[p] = "recv"
    BY <1>1, <1>11 DEF mmu_peek, AreFunctions
  <2>2. AtMostOne(toCli'[p], ProgramReplies)
        /\ \A j \in DOMAIN toCli'[p] : toCli'[p][j].type \notin ProgramReplies
    BY <1>6, <1>8 DEF Has, RequestOK
  <2> QED
    BY <1>8, <1>10, <2>1, <2>2 DEF RequestOK, Serving
<1>12. CASE mmu_recv(p)
  <2>1. toMmu'[p] = Tail(toMmu[p]) /\ thr'[p] = "lock" /\ req'[p] = m /\ thr[p] = "peeked"
    BY <1>1, <1>4, <1>12 DEF mmu_recv, Take, AreFunctions
  <2>2. Clear(p)'
    <3>1. ~ Has(Tail(toMmu[p]), ProgramRequests)
      BY <1>2, <1>3, <1>4, <1>5, TakeTheOne DEF RequestOK
    <3> QED
      BY <1>6, <1>8, <2>1, <3>1 DEF Clear
  <2>3. app[p] # "off"
    BY <2>1 DEF Control, ClientOK
  <2>4. count'[p] = count[p] /\ npages'[p] = npages[p] /\ wanted'[p] = wanted[p] /\ app'[p] = app[p]
    BY <1>8
  <2>5. req'[p].type = Asked(p)'
    BY <1>6, <1>8, <2>1
  <2>6. /\ app'[p] \in {"wait", "woken"} => wanted'[p] \in {"EXTEND_REQ", "SYSLOG_REQ", "SEGV_REQ"}
        /\ app'[p] \in {"off", "connecting"} => npages'[p] = 0
        /\ app'[p] # "joining" => count'[p] = IF Granted(p)' THEN npages'[p] + 1 ELSE npages'[p]
    BY <1>10, <2>4 DEF RequestOK
  <2> QED
    BY <2>1, <2>2, <2>5, <2>6, ClearOK DEF Serving
<1> QED
  BY <1>11, <1>12

\* The thread of p goes from a step with the request in its hand to another one.
LEMMA HandRequest ==
  ASSUME Control, NEW p \in Pids, RequestOK(p),
         thr[p] \in {"lock"} \cup Serving, thr'[p] \in {"reply"} \cup Serving,
         thr'[p] \in Serving => Asked(p) = "SEGV_REQ",
         thr'[p] = "reply" => req'[p].type = Reply(Asked(p)),
         UNCHANGED <<app, wanted, result, npages, toMmu, toCli>>,
         app[p] # "joining" =>
           count'[p] = IF thr'[p] = "reply" /\ Grants(req'[p]) THEN count[p] + 1 ELSE count[p]
  PROVE  RequestOK(p)'
<1>1. Clear(p) /\ Clear(p)'
  BY InThread DEF Clear
<1>2. Asked(p)' = Asked(p) /\ Reply(Asked(p))' = Reply(Asked(p))
  BY DEF Asked, Reply
<1>3. ~ Granting(toCli[p])
  BY <1>1, GrantIsReply DEF Clear
<1>4. Asked(p) # "nothing"
  <2>1. CASE thr[p] \in Serving
    BY <2>1 DEF RequestOK
  <2>2. CASE thr[p] = "lock"
    <3>1. req[p].type \in Requests /\ req[p].type = Asked(p)
      BY <2>2, RequestParts DEF Control, MessagesOK, RequestOK
    <3> QED
      BY <3>1 DEF Requests
  <2> QED
    BY <2>1, <2>2
<1>5. app[p] \notin {"woken", "off"}
  BY <1>4 DEF Asked
<1>6. thr[p] # "reply"
  BY DEF Serving
<1>7. ~ Granted(p) /\ (Granted(p)' <=> thr'[p] = "reply" /\ Grants(req'[p]))
  BY <1>3, <1>5, <1>6 DEF Granted, Granting, Grants
<1>8. /\ app[p] \in {"wait", "woken"} => wanted[p] \in {"EXTEND_REQ", "SYSLOG_REQ", "SEGV_REQ"}
      /\ app[p] \in {"off", "connecting"} => npages[p] = 0
      /\ app[p] # "joining" => count[p] = npages[p]
  BY <1>7 DEF RequestOK
<1>9. thr'[p] \notin {"destroy", "off", "lock", "done"}
  BY DEF Serving
<1>10. app[p] # "joining" => count'[p] = IF Granted(p)' THEN npages[p] + 1 ELSE npages[p]
  BY <1>7, <1>8
<1> QED
  BY <1>1, <1>2, <1>8, <1>9, <1>10, ClearOK

\* A request served in one step: of its kind, one reply.
LEMMA ServedRequest ==
  ASSUME Control, Tables, NEW p \in Pids, RequestOK(p), NEW rep \in ReplyMsg,
         thr[p] = "lock", rep.type = Reply(req[p].type), Served(p, rep),
         app[p] # "joining" => count'[p] = IF Grants(rep) THEN count[p] + 1 ELSE count[p]
  PROVE  RequestOK(p)'
<1>1. AreFunctions
  BY TheyAreFunctions
<1>2. thr'[p] = "reply" /\ req'[p] = rep
  BY <1>1 DEF Served, AreFunctions
<1>3. Asked(p) = req[p].type
  BY DEF RequestOK
<1>4. UNCHANGED <<app, wanted, result, npages, toMmu, toCli>>
  BY DEF Served, cliVars
<1> QED
  BY <1>2, <1>3, <1>4, HandRequest DEF Serving

LEMMA ServingRequest ==
  ASSUME Control, Data, NEW p \in Pids, RequestOK(p),
         \/ mmu_client_create(p) \/ mmu_client_extend(p)
         \/ mmu_client_syslog(p) \/ mmu_client_exit(p)
  PROVE  RequestOK(p)'
<1>1. AreFunctions /\ Tables
  BY TheyAreFunctions DEF Data
<1>2. thr[p] = "lock"
  BY DEF mmu_client_create, mmu_client_extend, mmu_client_syslog, mmu_client_exit, TakeLocker
<1>3. count[p] \in 0..MaxPages /\ count[p] \in Nat
  BY <1>1, SizesAssumption DEF Tables, TableTypes
<1>4. CASE mmu_client_create(p)
  <2>1. PICK rep : rep = [type |-> "CREATE_REP"]
    OBVIOUS
  <2>2. rep \in ReplyMsg /\ ~ Grants(rep)
    BY <2>1 DEF ReplyMsg, Grants
  <2>3. req[p].type = "CREATE_REQ" /\ Served(p, rep) /\ UNCHANGED count
    BY <1>4, <2>1 DEF mmu_client_create, TakeLocker, pager_create
  <2>4. rep.type = Reply(req[p].type)
    BY <2>1, <2>3 DEF Reply
  <2> QED
    BY <1>1, <1>2, <2>2, <2>3, <2>4, ServedRequest
<1>5. CASE mmu_client_extend(p)
  <2>1. PICK rep : /\ rep \in {[type |-> "EXTEND_REP", i |-> count[p]], [type |-> "EXTEND_REP", i |-> NULL]}
                   /\ Served(p, rep)
                   /\ rep.i # NULL => count[p] < MaxPages /\ count' = [count EXCEPT ![p] = @ + 1]
                   /\ rep.i = NULL => UNCHANGED count
    <3>1. CASE /\ count[p] < MaxPages
               /\ ExtendTables(p)
               /\ Served(p, [type |-> "EXTEND_REP", i |-> count[p]])
      <4>1. count[p] # NULL
        BY <1>3, <3>1, NoPageAssumption, SizesAssumption
      <4> QED
        BY <3>1, <4>1 DEF ExtendTables
    <3>2. CASE Served(p, [type |-> "EXTEND_REP", i |-> NULL]) /\ UNCHANGED pagerVars
      BY <3>2 DEF pagerVars
    <3> QED
      BY <1>5, <3>1, <3>2 DEF mmu_client_extend
  <2>2. rep.type = "EXTEND_REP" /\ (Grants(rep) <=> rep.i # NULL)
    BY <2>1 DEF Grants
  <2>3. rep \in ReplyMsg
    <3>1. CASE rep.i # NULL
      <4>1. count[p] \in Indices
        BY <1>3, <2>1, <3>1, SizesAssumption DEF Indices
      <4> QED
        BY <2>1, <3>1, <4>1 DEF ReplyMsg
    <3>2. CASE rep.i = NULL
      <4>1. rep = [type |-> "EXTEND_REP", i |-> NULL]
        BY <2>1, <3>2
      <4> QED
        BY <4>1 DEF ReplyMsg
    <3> QED
      BY <3>1, <3>2
  <2>4. count'[p] = IF Grants(rep) THEN count[p] + 1 ELSE count[p]
    BY <1>1, <2>1, <2>2 DEF AreFunctions
  <2>5. rep.type = Reply(req[p].type)
    BY <1>5, <2>2 DEF Reply, mmu_client_extend, TakeLocker
  <2> QED
    BY <1>1, <1>2, <2>1, <2>3, <2>4, <2>5, ServedRequest
<1>6. CASE mmu_client_syslog(p)
  <2>1. PICK rep \in [type : {"SYSLOG_REP"}, i : {NULL, Einval}] : Served(p, rep)
    BY <1>6 DEF mmu_client_syslog
  <2>2. req[p].type = "SYSLOG_REQ" /\ UNCHANGED count
    BY <1>6 DEF mmu_client_syslog, TakeLocker, vars
  <2>3. rep.type = "SYSLOG_REP" /\ ~ Grants(rep)
    BY DEF Grants
  <2>4. rep \in ReplyMsg
    BY DEF ReplyMsg
  <2>5. rep.type = Reply(req[p].type)
    BY <2>2, <2>3 DEF Reply
  <2> QED
    BY <1>1, <1>2, <2>1, <2>2, <2>3, <2>4, <2>5, ServedRequest
<1>7. CASE mmu_client_exit(p)
  <2>1. PICK rep : rep = [type |-> "EXIT_REP"]
    OBVIOUS
  <2>2. rep \in ReplyMsg
    BY <2>1 DEF ReplyMsg
  <2>3. req[p].type = "EXIT_REQ" /\ Served(p, rep)
    BY <1>7, <2>1 DEF mmu_client_exit, TakeLocker
  <2>4. rep.type = Reply(req[p].type)
    BY <2>1, <2>3 DEF Reply
  <2>5. app[p] = "joining"
    BY <1>2, <2>3, AskedTypes DEF RequestOK
  <2> QED
    BY <1>1, <1>2, <2>2, <2>3, <2>4, <2>5, ServedRequest
<1> QED
  BY <1>4, <1>5, <1>6, <1>7

LEMMA FaultRequest ==
  ASSUME Control, Data, NEW p \in Pids, RequestOK(p),
         mmu_client_segv(p) \/ mmu_fault_done(p)
  PROVE  RequestOK(p)'
<1>1. AreFunctions
  BY TheyAreFunctions DEF Data
<1>2. UNCHANGED <<app, wanted, result, npages, toMmu, toCli, count>>
  BY DEF mmu_client_segv, mmu_fault_done, cliVars, vars, ValidTables, FreeFrameTables, EvictTables
<1>3. CASE mmu_client_segv(p)
  <2>1. thr[p] = "lock" /\ req[p].type = "SEGV_REQ" /\ thr'[p] = "calls"
    BY <1>1, <1>3 DEF mmu_client_segv, TakeLocker, AreFunctions
  <2>2. Asked(p) = "SEGV_REQ"
    BY <2>1 DEF RequestOK
  <2> QED
    BY <1>2, <2>1, <2>2, HandRequest DEF Serving
<1>4. CASE mmu_fault_done(p)
  <2>1. thr[p] = "calls" /\ thr'[p] = "reply" /\ req'[p] = [type |-> "SEGV_REP"]
    BY <1>1, <1>4 DEF mmu_fault_done, AreFunctions
  <2>2. Asked(p) = "SEGV_REQ"
    BY <2>1 DEF RequestOK, Serving
  <2>3. req'[p].type = Reply(Asked(p)) /\ ~ Grants(req'[p])
    BY <2>1, <2>2 DEF Reply, Grants
  <2> QED
    BY <1>2, <2>1, <2>2, <2>3, HandRequest DEF Serving
<1> QED
  BY <1>3, <1>4

\* The reply goes back: the program is alive, so the send succeeds.
LEMMA ReplyRequest ==
  ASSUME Control, Tables, NEW p \in Pids, RequestOK(p), app[p] # "gone", mmu_reply(p)
  PROVE  RequestOK(p)'
<1>1. AreFunctions
  BY TheyAreFunctions
<1>2. /\ thr[p] = "reply" /\ toCli'[p] = Append(toCli[p], req[p])
      /\ thr'[p] = IF req[p].type = "EXIT_REP" THEN "done" ELSE "recv"
      /\ UNCHANGED <<app, wanted, result, npages, count, toMmu, req>>
  BY <1>1 DEF mmu_reply, Send, Put, vars, cliVars, AreFunctions
<1>3. req[p] \in ReplyMsg /\ toCli[p] \in Seq(ReplyMsg)
  BY <1>2 DEF Control, MessagesOK
<1>4. Clear(p)
  BY <1>2, InThread
<1>5. Asked(p)' = Asked(p) /\ Reply(Asked(p))' = Reply(Asked(p)) /\ req[p].type = Reply(Asked(p))
  BY <1>2 DEF Asked, Reply, RequestOK
<1>6. /\ AtMostOne(toCli'[p], ProgramReplies)
      /\ \A j \in DOMAIN toCli'[p] : toCli'[p][j].type \in ProgramReplies => toCli'[p][j] = req[p]
  BY <1>2, <1>3, <1>4, PutTheOne DEF Clear
<1>7. ~ Has(toMmu'[p], ProgramRequests)
  BY <1>2, <1>4 DEF Clear
<1>8. Granted(p)' <=> Granted(p)
  <2>1. Granting(toCli'[p]) <=> Granting(toCli[p]) \/ Grants(req[p])
    BY <1>2, <1>3, GrantingAppend
  <2>2. Granted(p)' <=> \/ thr'[p] = "reply" /\ Grants(req'[p])
                        \/ Granting(toCli'[p])
                        \/ app'[p] = "woken" /\ wanted'[p] = "EXTEND_REQ" /\ result'[p] # NULL
    BY DEF Granted, Granting, Grants
  <2> QED
    BY <1>2, <2>1, <2>2, GrantedParts
<1>9. thr'[p] = "done" => Asked(p) = "EXIT_REQ"
  BY <1>2, <1>5, ReplyTypes
<1>10. \A j \in DOMAIN toMmu'[p] : toMmu'[p][j].type \notin ProgramRequests
  BY <1>7 DEF Has
<1>11. AtMostOne(toMmu'[p], ProgramRequests)
  BY <1>2 DEF RequestOK
<1>12. /\ thr'[p] \in {"recv", "done"}
       /\ app'[p] = app[p] /\ wanted'[p] = wanted[p] /\ npages'[p] = npages[p] /\ count'[p] = count[p]
  BY <1>2
<1> QED
  BY <1>5, <1>6, <1>7, <1>8, <1>9, <1>10, <1>11, <1>12 DEF RequestOK, Serving

\* Messages of the pager, to whichever client.
LEMMA CallsRequest ==
  ASSUME Control, Data, NEW p \in Pids, mmu_call_send(p) \/ mmu_call_recv(p),
         NEW q \in Pids, RequestOK(q)
  PROVE  RequestOK(q)'
<1>1. AreFunctions
  BY TheyAreFunctions DEF Data
<1>2. PICK r : r = Head(calls).page[1]
  OBVIOUS
<1>3. UNCHANGED <<app, wanted, result, npages, count, req>>
  BY DEF mmu_call_send, mmu_call_recv, vars, cliVars
<1>4. toMmu[q] \in Seq(RequestMsg) /\ toCli[q] \in Seq(ReplyMsg)
  BY DEF Control, MessagesOK
<1>5. CASE mmu_call_send(p)
  <2>1. PICK m : m = Message(Head(calls))
    OBVIOUS
  <2>2. /\ thr[p] = "calls" /\ thr' \in {thr, [thr EXCEPT ![p] = "awaiting"]}
        /\ UNCHANGED toMmu
        /\ toCli' = toCli \/ toCli' = Put(toCli, r, m)
        /\ calls # <<>> /\ Head(calls).op \in WaitingCalls
    BY <1>2, <1>5, <2>1 DEF mmu_call_send, AtCall, Send, WaitingCalls
  <2>3. m \in ReplyMsg /\ m.type \in PagerReplies
    <3>1. Head(calls) \in MmuCall
      BY <2>2, HeadOfCalls DEF Control
    <3> QED
      BY <2>1, <2>2, <3>1, MessageParts
  <2>4. m.type \notin ProgramReplies /\ ~ Grants(m)
    BY <2>3 DEF ProgramReplies, Grants, PagerReplies
  <2>5. thr'[q] = thr[q] \/ (thr[q] \in Serving /\ thr'[q] \in Serving)
    BY <1>1, <2>2 DEF AreFunctions, Serving
  <2>6. toCli'[q] = toCli[q] \/ toCli'[q] = Append(toCli[q], m)
    BY <1>1, <2>2 DEF AreFunctions, Put
  <2>7. FewerOf(toCli'[q], toCli[q], ProgramReplies)
    BY <1>4, <2>3, <2>4, <2>6, FewerAppend, FewerSame
  <2>8. Granting(toCli'[q]) <=> Granting(toCli[q])
    BY <1>4, <2>3, <2>4, <2>6, GrantingAppend
  <2>9. FewerOf(toMmu'[q], toMmu[q], ProgramRequests)
    BY <2>2, FewerSame
  <2> QED
    BY <1>3, <2>5, <2>7, <2>8, <2>9, RequestKeep
<1>6. CASE mmu_call_recv(p)
  <2>1. /\ thr[p] = "answered" /\ thr' = [thr EXCEPT ![p] = "calls"]
        /\ UNCHANGED toCli
        /\ toMmu' = Take(toMmu, r) /\ toMmu[r] # <<>>
    BY <1>2, <1>6 DEF mmu_call_recv
  <2>2. thr'[q] = thr[q] \/ (thr[q] \in Serving /\ thr'[q] \in Serving)
    BY <1>1, <2>1 DEF AreFunctions, Serving
  <2>3. toMmu'[q] = toMmu[q] \/ (toMmu[q] # <<>> /\ toMmu'[q] = Tail(toMmu[q]))
    BY <1>1, <2>1 DEF AreFunctions, Take
  <2>4. FewerOf(toMmu'[q], toMmu[q], ProgramRequests)
    BY <1>4, <2>3, FewerTail, FewerSame
  <2>5. FewerOf(toCli'[q], toCli[q], ProgramReplies) /\ (Granting(toCli'[q]) <=> Granting(toCli[q]))
    BY <2>1, FewerSame
  <2> QED
    BY <1>3, <2>2, <2>4, <2>5, RequestKeep
<1> QED
  BY <1>5, <1>6

LEMMA ClientThreadRequest ==
  ASSUME Control, Data, NEW p \in Pids, RequestOK(p), app[p] # "gone", ClientThread(p)
  PROVE  RequestOK(p)'
<1>1. AreFunctions /\ Tables
  BY TheyAreFunctions DEF Data
<1>2. CASE mmu_peek(p) \/ mmu_recv(p)
  BY <1>1, <1>2, PeekRequest
<1>3. CASE \/ mmu_client_create(p) \/ mmu_client_extend(p)
           \/ mmu_client_syslog(p) \/ mmu_client_exit(p)
  BY <1>3, ServingRequest
<1>4. CASE mmu_client_segv(p) \/ mmu_fault_done(p)
  BY <1>4, FaultRequest
<1>5. CASE mmu_reply(p)
  BY <1>1, <1>5, ReplyRequest
<1>6. CASE mmu_call_send(p) \/ mmu_call_recv(p)
  BY <1>6, CallsRequest
<1>7. ~ mmu_eof(p) /\ ~ mmu_client_destroy(p)
  BY DEF mmu_eof, mmu_client_destroy, RequestOK
<1>8. CASE \/ mmu_client_segv_unlisted(p) \/ mmu_client_syslog_wild(p)
           \/ mmu_disk_write(p) \/ mmu_fill(p)
  <2>1. Alike(p)
    BY <1>8 DEF mmu_client_segv_unlisted, mmu_client_syslog_wild, mmu_disk_write, mmu_fill,
       Alike, vars, pagerVars, cliVars
  <2> QED
    BY <2>1, RequestAlike
<1>9. CASE mmu_call_peek(p) \/ mmu_call_eof(p)
  <2>1. /\ thr[p] \in Serving /\ thr'[p] \in Serving
        /\ UNCHANGED <<app, wanted, result, npages, count, req, toMmu, toCli>>
    BY <1>1, <1>9 DEF mmu_call_peek, mmu_call_eof, vars, cliVars, AreFunctions, Serving
  <2> QED
    BY <2>1, RequestKeep, FewerSame
<1> QED
  BY <1>2, <1>3, <1>4, <1>5, <1>6, <1>7, <1>8, <1>9 DEF ClientThread

-----------------------------------------------------------------------------
LEMMA RequestsInit == SysInit => RequestsOK
<1> SUFFICES ASSUME SysInit, NEW p \in Pids
             PROVE  RequestOK(p)
  BY DEF RequestsOK
<1>1. /\ app[p] = "off" /\ thr[p] = "off" /\ npages[p] = 0 /\ count[p] = 0
      /\ toMmu[p] = <<>> /\ toCli[p] = <<>>
  BY DEF SysInit, Init
<1>2. ~ Granted(p)
  BY <1>1 DEF Granted
<1> QED
  BY <1>1, <1>2 DEF RequestOK, AtMostOne, Serving

\* A program that ended does not come back.
LEMMA GoneStays ==
  ASSUME Control, Tables, NEW p \in Pids,
         Program(p) \/ Returns(p) \/ UvmThread(p) \/ ClientThread(p)
  PROVE  app[p] = "gone" => app'[p] = "gone"
<1>1. AreFunctions
  BY TheyAreFunctions
<1>2. CASE Program(p) \/ Returns(p)
  BY <1>1, <1>2 DEF Program, Returns, uvm_create, uvm_created, uvm_extend, uvm_syslog,
     uvm_segv_action, Request, Resume, SpuriousWakeup, Store, uvm_exit, Die, AreFunctions
<1>3. CASE UvmThread(p)
  <2>1. app' \in {app, Signalled(p), [app EXCEPT ![p] = "gone"]}
    BY <1>3 DEF UvmThread, uvm_proto_extend_rep, uvm_proto_syslog_rep, uvm_proto_segv_rep,
       uvm_proto_remap_rep, uvm_proto_chprot_rep, uvm_exit_rep, cliVars
  <2> QED
    BY <1>1, <2>1 DEF Signalled, AreFunctions
<1>4. CASE ClientThread(p)
  BY <1>4 DEF ClientThread, mmu_peek, mmu_recv, mmu_eof, mmu_client_create,
     mmu_client_extend, mmu_client_segv, mmu_client_segv_unlisted, mmu_client_syslog,
     mmu_client_syslog_wild, mmu_client_exit, mmu_client_destroy, mmu_call_send, mmu_call_peek, mmu_call_recv,
     mmu_call_eof, mmu_disk_write, mmu_fill, mmu_fault_done, mmu_reply, Served, cliVars
<1> QED
  BY <1>2, <1>3, <1>4

LEMMA RequestsNext ==
  ASSUME SysIInv, RequestsOK, MayWakeEarly = {}, [SysNext]_sysVars
  PROVE  RequestsOK'
<1>1. Control /\ Data /\ Tables /\ AreFunctions
  BY Parts, TheyAreFunctions DEF Data
<1>2. CASE UNCHANGED sysVars
  <2>1. \A q \in Pids : Alike(q)
    BY <1>2 DEF sysVars, vars, cliVars, thrVars, Alike
  <2> QED
    BY <2>1, RequestAlike DEF RequestsOK, Alike
<1>3. ASSUME NEW p \in Pids, Program(p) \/ Returns(p) \/ UvmThread(p) \/ ClientThread(p)
      PROVE  RequestsOK'
  <2> SUFFICES ASSUME NEW q \in Pids, app'[q] # "gone"
               PROVE  RequestOK(q)'
    BY DEF RequestsOK
  <2>1. CASE q = p
    <3>1. app[p] # "gone" /\ RequestOK(p)
      BY <1>1, <1>3, <2>1, GoneStays DEF RequestsOK
    <3> QED
      BY <1>1, <1>3, <2>1, <3>1, ProgramRequest, UvmThreadRequest, ClientThreadRequest
  <2>2. CASE q # p /\ Alike(q)
    <3>1. RequestOK(q)
      BY <2>2 DEF Alike, RequestsOK
    <3> QED
      BY <2>2, <3>1, RequestAlike
  <2>3. CASE q # p /\ (mmu_call_send(p) \/ mmu_call_recv(p))
    <3>1. app'[q] = app[q]
      BY <2>3 DEF mmu_call_send, mmu_call_recv, cliVars
    <3> QED
      BY <1>1, <2>3, <3>1, CallsRequest DEF RequestsOK
  <2> QED
    BY <1>1, <1>3, <2>1, <2>2, <2>3, ProgramAlike, UvmThreadAlike, ClientThreadAlike
<1> QED
  BY <1>2, <1>3 DEF SysNext, AllDone

LEMMA InvRuns ==
  ASSUME SysIInv, RequestsOK
  PROVE  RunsWhenServed
<1>1. Control /\ Data
  BY Parts
<1> SUFFICES ASSUME NEW p \in Pids, app[p] = "run"
             PROVE  /\ thr[p] = "recv"
                    /\ \A j \in DOMAIN toMmu[p] : toMmu[p][j].type \in PagerMessages
                    /\ \A j \in DOMAIN toCli[p] : toCli[p][j].type = "CHPROT_REP"
                    /\ npages[p] = count[p]
  BY DEF RunsWhenServed
<1>2. RequestOK(p)
  BY DEF RequestsOK
<1>3. thr[p] = "recv" /\ Clear(p)
  BY <1>1, <1>2, NotWaiting
<1>4. toMmu[p] \in Seq(RequestMsg) /\ toCli[p] \in Seq(ReplyMsg)
  BY <1>1 DEF Control, MessagesOK
<1>5. ASSUME NEW j \in DOMAIN toMmu[p]
      PROVE  toMmu[p][j].type \in PagerMessages
  <2>1. toMmu[p][j] \in RequestMsg
    BY <1>4
  <2> QED
    BY <1>3, <2>1, RequestParts DEF Clear, Has, ProgramRequests
<1>6. ASSUME NEW j \in DOMAIN toCli[p]
      PROVE  toCli[p][j].type = "CHPROT_REP"
  <2>1. toCli[p][j] \in ReplyMsg
    BY <1>4
  <2>2. toCli[p][j].type \in PagerReplies
    BY <1>3, <2>1, ReplyParts DEF Clear, Has, ProgramReplies
  <2>3. Sent(p) /\ toCli[p][j] = Message(Head(calls))
    BY <1>1, <2>2 DEF Control, TokensOK
  <2>4. PICK h \in Pids : thr[h] \in AtAnswer /\ Head(calls).page[1] = p
    BY <2>3 DEF Sent
  <2>5. calls # <<>> /\ Head(calls).op \in WaitingCalls /\ locker = h
    BY <1>1, <2>4 DEF Control, LockerOK, AtAnswer, Serving
  <2>6. Head(calls) \in MmuCall /\ CallOK(Head(calls))
    BY <1>1, <2>5, HeadFirst DEF Data
  <2>7. Head(calls).op # "resident"
    <3>1. h # p
      BY <1>3, <2>4 DEF AtAnswer
    <3> QED
      BY <2>4, <2>5, <2>6, <3>1 DEF CallOK
  <2> QED
    BY <2>2, <2>3, <2>5, <2>6, <2>7, MessageParts DEF PagerReplies
<1>7. npages[p] = count[p]
  <2>1. ~ Granted(p)
    BY <1>3, GrantedParts, GrantIsReply DEF Clear
  <2> QED
    BY <1>2, <2>1 DEF RequestOK
<1> QED
  BY <1>3, <1>5, <1>6, <1>7

\* Where pthread_cond_wait only returns when it is signalled, a program that is
\* not waiting has nothing under way, and it knows all its pages.  That holds
\* of every program, whoever else is killed.  (A wakeup without a signal breaks
\* it: uvm.c does not wait in a loop.)
THEOREM RunsServed == MayWakeEarly = {} => (SysSpec => []RunsWhenServed)
<1> SUFFICES ASSUME MayWakeEarly = {} PROVE SysSpec => []RunsWhenServed
  OBVIOUS
<1>1. SysIInv /\ RequestsOK /\ [SysNext]_sysVars => RequestsOK'
  BY RequestsNext
<1>2. SysIInv /\ RequestsOK => RunsWhenServed
  BY InvRuns
<1> QED
  BY <1>1, <1>2, RequestsInit, SysInvariance, PTL DEF SysSpec

-----------------------------------------------------------------------------
(***************************************************************************)
(* What a fault gives.  Of the list of calls that a thread still has to    *)
(* make only the last one matters: it gives the faulting page the right    *)
(* that the tables already say it has.                                     *)
(***************************************************************************)

Right(pg) == IF pages[pg].dirty = 1 THEN "RW" ELSE "READ"

\* The last call of the list s gives page pg the right r.
LastGives(s, pg, r) ==
  /\ s[Len(s)].op \in {"chprot", "resident"}
  /\ s[Len(s)].page = pg
  /\ s[Len(s)].prot = r

FaultOf(pg) ==
  /\ pg \in PageIds
  /\ Listed(pg)
  /\ pages[pg].isvalid = 1
  /\ IF calls = <<>> THEN pte[pg].prot = Right(pg) ELSE LastGives(calls, pg, Right(pg))

FaultOK == \A p \in Pids : thr[p] \in Serving => FaultOf(<<p, req[p].i>>)

\* Nobody is in a fault after the step.
LEMMA FaultNobody ==
  ASSUME \A q \in Pids : thr'[q] \notin Serving
  PROVE  FaultOK'
BY DEF FaultOK, Serving

\* Nobody begins a fault, and the one that is under way makes no call.
LEMMA FaultKeep ==
  ASSUME FaultOK, UNCHANGED <<pages, count, calls>>, calls = <<>> => pte' = pte,
         \A q \in Pids : thr'[q] \in Serving => thr[q] \in Serving /\ req'[q] = req[q]
  PROVE  FaultOK'
<1> SUFFICES ASSUME NEW q \in Pids, thr'[q] \in Serving
             PROVE  FaultOf(<<q, req[q].i>>)'
  BY DEF FaultOK, Serving
<1>1. PICK pg : pg = <<q, req[q].i>>
  OBVIOUS
<1>2. FaultOf(pg)
  BY <1>1 DEF FaultOK
<1>3. Listed(pg)' /\ Right(pg)' = Right(pg)
  BY <1>2 DEF FaultOf, Listed, Right
<1>4. FaultOf(pg)'
  BY <1>2, <1>3 DEF FaultOf, LastGives
<1> QED
  BY <1>1, <1>4

\* The thread in a fault has made its next call, which has taken effect.
LEMMA FaultTail ==
  ASSUME Control, FaultOK, calls # <<>>, calls' = Tail(calls),
         UNCHANGED <<pages, count, pte, req>>,
         Head(calls).op \in {"chprot", "resident"} =>
           pte[Head(calls).page].prot = Head(calls).prot,
         \A q \in Pids : thr'[q] \in Serving => thr[q] \in Serving
  PROVE  FaultOK'
<1> SUFFICES ASSUME NEW q \in Pids, thr'[q] \in Serving
             PROVE  FaultOf(<<q, req[q].i>>)'
  BY DEF FaultOK, Serving
<1>1. PICK pg : pg = <<q, req[q].i>>
  OBVIOUS
<1>2. FaultOf(pg)
  BY <1>1 DEF FaultOK
<1>3. Listed(pg)' /\ Right(pg)' = Right(pg)
  BY <1>2 DEF FaultOf, Listed, Right
<1>4. PICK n \in Nat \ {0} : n = Len(calls)
  BY TailFacts DEF Control, MessagesOK
<1>5. /\ Head(calls) = calls[1]
      /\ calls' \in Seq(MmuCall)
      /\ DOMAIN calls' = 1..(n - 1)
      /\ \A j \in 1..(n - 1) : calls'[j] = calls[j + 1]
  BY <1>4, TailFacts DEF Control, MessagesOK
<1>6. Len(calls') = n - 1
  BY <1>4, <1>5, LenProperties
<1>7. LastGives(calls, pg, Right(pg))
  BY <1>2 DEF FaultOf
<1>8. CASE n = 1
  <2>1. calls' = <<>>
    BY <1>5, <1>6, <1>8, EmptySeq
  <2>2. pte[pg].prot = Right(pg)
    BY <1>4, <1>5, <1>7, <1>8 DEF LastGives
  <2> QED
    BY <1>1, <1>2, <1>3, <2>1, <2>2 DEF FaultOf
<1>9. CASE n # 1
  <2>1. n - 1 \in 1..(n - 1) /\ (n - 1) + 1 = n
    BY <1>9
  <2>2. calls'[Len(calls')] = calls[n]
    BY <1>5, <1>6, <2>1
  <2>3. calls' # <<>>
    <3>1. PICK s \in Seq(MmuCall) : s = calls'
      BY <1>5
    <3>2. Len(s) # 0
      BY <1>6, <1>9, <3>1
    <3> QED
      BY <3>1, <3>2, EmptySeq
  <2>4. PICK r : r = Right(pg)
    OBVIOUS
  <2>5. LastGives(calls', pg, r)
    BY <1>4, <1>7, <2>2, <2>4 DEF LastGives
  <2>6. LastGives(calls, pg, Right(pg))'
    BY <1>3, <2>4, <2>5 DEF LastGives
  <2> QED
    BY <1>1, <1>2, <1>3, <2>3, <2>6 DEF FaultOf
<1> QED
  BY <1>8, <1>9

\* pager_fault has changed the tables: the call that it makes last is for the page
\* of the fault, and gives it what the tables now say.
LEMMA SegvGives ==
  ASSUME Control, Tables, NEW p \in Pids, mmu_client_segv(p)
  PROVE  FaultOf(<<p, req[p].i>>)'
<1>1. PICK pg : pg = <<p, req[p].i>>
  OBVIOUS
<1>2. /\ thr[p] = "lock"
      /\ req[p].type = "SEGV_REQ"
      /\ Listed(pg)
      /\ UNCHANGED req
  BY <1>1 DEF mmu_client_segv, TakeLocker
<1>3. pg \in PageIds
  <2>1. req[p].i \in Indices
    BY <1>2, RequestParts DEF Control, MessagesOK
  <2> QED
    BY <1>1, <2>1, PageIdOf, SizesAssumption DEF Indices
<1>4. pages \in [PageIds -> Page]
  BY DEF Tables, TableTypes
<1>5. CASE ValidTables(pg) /\ calls' = <<Chprot(pg, "RW")>>
  <2>1. pages'[pg].isvalid = 1 /\ pages'[pg].dirty = 1 /\ UNCHANGED count
    BY <1>3, <1>4, <1>5 DEF ValidTables, Page
  <2>2. LastGives(calls', pg, "RW") /\ calls' # <<>>
    BY <1>5 DEF LastGives, Chprot
  <2>3. LastGives(calls, pg, Right(pg))'
    BY <2>1, <2>2 DEF LastGives, Right
  <2>4. Listed(pg)'
    BY <1>2, <2>1 DEF Listed
  <2>5. FaultOf(pg)'
    BY <1>3, <2>1, <2>2, <2>3, <2>4 DEF FaultOf
  <2> QED
    BY <1>1, <1>2, <2>5
<1>6. ASSUME NEW f \in Frames, pages[pg].isvalid = 0, LoadsTables(pg, f),
             calls' # <<>>, calls'[Len(calls')] = ResidentCall(pg, f)
      PROVE  FaultOf(<<p, req[p].i>>)'
  <2>1. Listed(pg)' /\ pages'[pg].isvalid = 1 /\ pages'[pg].dirty = 0
    BY <1>2, <1>3, <1>6, LoadsFacts
  <2>2. LastGives(calls, pg, Right(pg))'
    BY <1>6, <2>1 DEF LastGives, ResidentCall, Right
  <2>3. FaultOf(pg)'
    BY <1>3, <1>6, <2>1, <2>2 DEF FaultOf
  <2> QED
    BY <1>1, <1>2, <2>3
<1>7. ASSUME NEW f \in Frames, FreeFrameTables(pg, f), calls' = LoadCalls(pg, f, blocks)
      PROVE  FaultOf(<<p, req[p].i>>)'
  <2>1. LoadsTables(pg, f) /\ pages[pg].isvalid = 0
    BY <1>2, <1>3, <1>7, FreeFrameLoadsTables DEF FreeFrameTables
  <2>2. calls' \in Seq(MmuCall) /\ Len(calls') = 2 /\ calls'[2] = ResidentCall(pg, f)
    BY <1>2, <1>3, <1>7, LoadCallsShape
  <2>3. calls' # <<>>
    BY <2>2, EmptySeq
  <2> QED
    BY <1>6, <2>1, <2>2, <2>3
<1>8. ASSUME NEW k \in 0..NFrames, EvictTables(pg, k),
             calls' = SwapOutCalls(HandAt(k)) \o LoadCalls(pg, HandAt(k), blocks')
      PROVE  FaultOf(<<p, req[p].i>>)'
  <2>1. PICK v \in Frames : v = HandAt(k)
    BY <1>2, <1>3, <1>8, VictimFacts
  <2>2. /\ LoadsTables(pg, v) /\ pages[pg].isvalid = 0
        /\ \A f \in Frames : frames[f].pid # NoPid
    BY <1>2, <1>3, <1>8, <2>1, EvictLoadsTables DEF EvictTables
  <2>3. PICK s : s = SwapOutCalls(v) \o LoadCalls(pg, v, blocks')
    OBVIOUS
  <2>4. s \in Seq(MmuCall) /\ CallsOfEvict(s, pg, v, blocks')
    BY <1>2, <1>3, <2>2, <2>3, EvictCallsShape
  <2>5. PICK m \in Nat \ {0} : Len(s) = m /\ s[m] = ResidentCall(pg, v)
    BY <2>4 DEF CallsOfEvict
  <2>6. s # <<>>
    BY <2>5, EmptySeq
  <2>7. calls' = s
    BY <1>8, <2>1, <2>3
  <2> QED
    BY <1>6, <2>2, <2>5, <2>6, <2>7
<1> QED
  BY <1>1, <1>5, <1>7, <1>8 DEF mmu_client_segv

LEMMA SegvFault ==
  ASSUME Control, Tables, NEW p \in Pids, mmu_client_segv(p)
  PROVE  FaultOK'
<1>1. locker = NoPid /\ thr' = [thr EXCEPT ![p] = "calls"]
  BY DEF mmu_client_segv, TakeLocker
<1>2. \A q \in Pids : q # p => thr'[q] \notin Serving
  BY <1>1, FreeLocker DEF Control, CtlTypes
<1>3. FaultOf(<<p, req[p].i>>)'
  BY SegvGives
<1>4. \A q \in Pids : thr'[q] \in Serving => FaultOf(<<q, req[q].i>>)'
  BY <1>2, <1>3
<1> QED
  BY <1>4 DEF FaultOK, Serving

\* A thread that needs the locker for no more than its step.
LEMMA ServedFault ==
  ASSUME Control, NEW p \in Pids, locker = NoPid,
         NEW x, x \notin Serving, thr' = [thr EXCEPT ![p] = x]
  PROVE  FaultOK'
<1>1. \A q \in Pids : thr[q] \notin Serving
  BY FreeLocker DEF Control
<1>2. \A q \in Pids : thr'[q] \notin Serving
  BY <1>1 DEF Control, CtlTypes
<1> QED
  BY <1>2, FaultNobody

LEMMA UvmThreadFault ==
  ASSUME Control, FaultOK, NEW p \in Pids, UvmThread(p)
  PROVE  FaultOK'
<1>1. UNCHANGED <<pages, count, calls, thr, req>>
  BY DEF UvmThread, uvm_proto_extend_rep, uvm_proto_syslog_rep, uvm_proto_segv_rep,
     uvm_proto_remap_rep, uvm_proto_chprot_rep, uvm_exit_rep, vars, pagerVars, thrVars
<1>2. calls = <<>> => pte' = pte
  <2>1. ASSUME uvm_proto_remap_rep(p) \/ uvm_proto_chprot_rep(p)
        PROVE  calls # <<>>
    <3>1. toCli[p] # <<>> /\ Head(toCli[p]).type \in PagerReplies
      BY <2>1 DEF uvm_proto_remap_rep, uvm_proto_chprot_rep, uvm_recv, PagerReplies
    <3> QED
      BY <3>1, PagerReplyFacts
  <2> QED
    BY <2>1 DEF UvmThread, uvm_proto_extend_rep, uvm_proto_syslog_rep,
       uvm_proto_segv_rep, uvm_exit_rep, vars
<1> QED
  BY <1>1, <1>2, FaultKeep

LEMMA ProgramFault ==
  ASSUME Control, Tables, FaultOK, NEW p \in Pids, Program(p) \/ Returns(p)
  PROVE  FaultOK'
<1>1. UNCHANGED <<pages, count, calls, pte, req>>
  BY DEF Program, Returns, uvm_create, uvm_extend, uvm_segv_action, uvm_syslog, Store,
     uvm_exit, SpuriousWakeup, Die, uvm_created, Resume, Request, vars, pagerVars, thrVars
<1>2. thr' = thr \/ thr' = [thr EXCEPT ![p] = "recv"]
  BY DEF Program, Returns, uvm_create, uvm_extend, uvm_segv_action, uvm_syslog, Store,
     uvm_exit, SpuriousWakeup, Die, uvm_created, Resume, Request, vars, pagerVars, thrVars
<1>3. \A q \in Pids : thr'[q] \in Serving => thr[q] \in Serving
  BY <1>2 DEF Control, CtlTypes, Serving
<1> QED
  BY <1>1, <1>3, FaultKeep

LEMMA ClientThreadFault ==
  ASSUME Control, Data, FaultOK, NEW p \in Pids, ClientThread(p)
  PROVE  FaultOK'
<1>0. thr = [q \in Pids |-> thr[q]] /\ req = [q \in Pids |-> req[q]]
  BY TheyAreFunctions DEF Data, AreFunctions
<1>1. CASE mmu_peek(p) \/ mmu_recv(p) \/ mmu_eof(p) \/ mmu_reply(p)
  <2>1. UNCHANGED <<pages, count, calls, pte>>
    BY <1>1 DEF mmu_peek, mmu_recv, mmu_eof, mmu_reply, vars
  <2>2. \A q \in Pids : thr'[q] \in Serving => thr[q] \in Serving /\ req'[q] = req[q]
    BY <1>0, <1>1 DEF mmu_peek, mmu_recv, mmu_eof, mmu_reply, Serving
  <2> QED
    BY <2>1, <2>2, FaultKeep
<1>2. CASE mmu_client_segv_unlisted(p) \/ mmu_client_syslog_wild(p)
           \/ mmu_call_peek(p) \/ mmu_call_eof(p)
  <2>1. UNCHANGED <<pages, count, calls, pte, req>>
    BY <1>2 DEF mmu_client_segv_unlisted, mmu_client_syslog_wild, mmu_call_peek,
       mmu_call_eof, vars
  <2>2. \A q \in Pids : thr'[q] \in Serving => thr[q] \in Serving
    BY <1>0, <1>2 DEF mmu_client_segv_unlisted, mmu_client_syslog_wild, mmu_call_peek,
       mmu_call_eof, Serving
  <2> QED
    BY <2>1, <2>2, FaultKeep
<1>3. CASE mmu_client_create(p) \/ mmu_client_extend(p) \/ mmu_client_syslog(p)
           \/ mmu_client_exit(p) \/ mmu_client_destroy(p)
  <2>1. locker = NoPid /\ \E x \in {"reply", "done"} : thr' = [thr EXCEPT ![p] = x]
    BY <1>3 DEF mmu_client_create, mmu_client_extend, mmu_client_syslog, mmu_client_exit,
       mmu_client_destroy, TakeLocker, Served
  <2> QED
    BY <2>1, ServedFault DEF Serving
<1>4. CASE mmu_client_segv(p)
  BY <1>4, SegvFault DEF Data
<1>5. CASE mmu_call_send(p)
  <2>1. /\ UNCHANGED <<pages, count, pte, req, calls>>
        /\ thr[p] = "calls" /\ thr' = [thr EXCEPT ![p] = "awaiting"]
    BY <1>5 DEF mmu_call_send, AtCall, WaitingCalls, vars
  <2>2. \A q \in Pids : thr'[q] \in Serving => thr[q] \in Serving
    BY <1>0, <2>1 DEF Serving
  <2> QED
    BY <2>1, <2>2, FaultKeep
<1>6. CASE mmu_call_recv(p)
  <2>1. /\ UNCHANGED <<pages, count, pte, req>>
        /\ thr[p] = "answered" /\ thr' = [thr EXCEPT ![p] = "calls"]
        /\ calls' = Tail(calls)
    BY <1>6 DEF mmu_call_recv, vars
  <2>2. calls # <<>> /\ Effected(Head(calls))
    BY <2>1, AnswerFacts
  <2>3. \A q \in Pids : thr'[q] \in Serving => thr[q] \in Serving
    BY <1>0, <2>1 DEF Serving
  <2> QED
    BY <2>1, <2>2, <2>3, FaultTail DEF Effected
<1>7. CASE mmu_disk_write(p) \/ mmu_fill(p)
  <2>1. /\ UNCHANGED <<pages, count, pte, req, thr>>
        /\ calls # <<>> /\ calls' = Tail(calls)
        /\ Head(calls).op \notin {"chprot", "resident"}
    BY <1>7 DEF mmu_disk_write, mmu_fill, AtCall, pagerVars
  <2> QED
    BY <2>1, FaultTail
<1>8. CASE mmu_fault_done(p)
  <2>1. locker = p /\ thr[p] = "calls" /\ thr' = [thr EXCEPT ![p] = "reply"]
    BY <1>8 DEF mmu_fault_done
  <2>2. \A q \in Pids : q # p => thr[q] \notin Serving
    BY <2>1, AtCallFacts
  <2>3. \A q \in Pids : thr'[q] \notin Serving
    BY <1>0, <2>1, <2>2 DEF Serving
  <2> QED
    BY <2>3, FaultNobody
<1> QED
  BY <1>1, <1>2, <1>3, <1>4, <1>5, <1>6, <1>7, <1>8 DEF ClientThread

LEMMA FaultNext == SysIInv /\ FaultOK /\ [SysNext]_sysVars => FaultOK'
<1> SUFFICES ASSUME SysIInv, FaultOK, [SysNext]_sysVars
             PROVE  FaultOK'
  OBVIOUS
<1>1. Control /\ Data /\ Tables
  BY Parts DEF Data
<1>2. CASE UNCHANGED sysVars
  <2>1. UNCHANGED <<pages, count, calls, pte, thr, req>>
    BY <1>2 DEF sysVars, vars, thrVars
  <2> QED
    BY <2>1, FaultKeep
<1> QED
  BY <1>1, <1>2, ProgramFault, UvmThreadFault, ClientThreadFault DEF SysNext, AllDone

LEMMA InvFaults == Control /\ Data /\ FaultOK => FaultsGiveAccess
<1> SUFFICES ASSUME Control, Data, FaultOK,
                    NEW p \in Pids, thr[p] = "calls", calls = <<>>,
                    NEW pg, pg = <<p, req[p].i>>
             PROVE  pte[pg] = [frame |-> pages[pg].frame_number, prot |-> Right(pg)]
  BY DEF FaultsGiveAccess, Right
<1>1. FaultOf(pg)
  BY DEF FaultOK, Serving
<1>2. pg \in PageIds /\ Listed(pg) /\ pages[pg].isvalid = 1 /\ pte[pg].prot = Right(pg)
  BY <1>1 DEF FaultOf
<1>3. ~ Pending({"resident"}, pg)
  BY DEF Pending
<1>4. pte[pg].frame = pages[pg].frame_number
  BY <1>2, <1>3 DEF Data, MemoryOK
<1>5. pte[pg] \in Pte
  BY <1>2 DEF Data, DataTypes
<1> QED
  BY <1>2, <1>4, <1>5 DEF Pte

\* A fault ends with the page mapped on its frame, with the right that the pager
\* has written down: whatever was hidden or evicted for it, and in whatever order
\* the other threads and the clients ran.
THEOREM FaultsEndWithAccess == SysSpec => []FaultsGiveAccess
<1>1. SysInit => FaultOK
  BY DEF SysInit, FaultOK, Serving
<1>2. SysIInv /\ FaultOK => FaultsGiveAccess
  BY Parts, InvFaults
<1> QED
  BY <1>1, <1>2, FaultNext, SysInvariance, PTL DEF SysSpec
=============================================================================
