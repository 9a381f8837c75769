----------------------------- MODULE MmuSystem -----------------------------
(***************************************************************************)
(* The memory management infrastructure of TP2 as its threads and sockets  *)
(* make it up: in every client the program (main thread) and uvm_thread    *)
(* (uvm.c), in the MMU one mmu_client_thread per client (mmu.c) that runs  *)
(* the pager under `locker'.  A page fault is no longer one step: the      *)
(* thread that holds the locker changes the tables and then makes its MMU  *)
(* calls one by one, and mmu_resident, mmu_nonresident and mmu_chprot are  *)
(* a message to the client and its answer on a socket that the client's    *)
(* own mmu_client_thread reads too.                                        *)
(*                                                                         *)
(* The tables are only read and written under `locker', so all the table   *)
(* changes of a pager_* call are made in the step that takes the locker.   *)
(* Every step of a thread needs mmu = "up": what a dying MMU still does is *)
(* not modelled.                                                           *)
(***************************************************************************)
EXTENDS Pager, Sequences

CONSTANTS
  MaxOps,          \* bound: MaxOps[p] is the number of requests, stores and early
                   \* wakeups of p (MaxPages is at least NBlocks if a client may
                   \* wake early: its extensions then fail for want of a block only)
  SyslogPages,     \* pages <<p, i>> whose range program p gives to uvm_syslog
  MayDie,          \* clients that may be killed (SIGKILL) at any time
  MayWakeEarly     \* clients where pthread_cond_wait may return without a signal

\* The retcode of a refused pager_syslog: any word but zero.
Einval == -1

\* NULL is the word zero: the pointer of a refused uvm_extend, which is not the
\* address of a page, and the retcode of a pager_syslog that succeeded.
ASSUME NoPageAssumption == NULL \notin 0..(MaxPages - 1) \cup {Einval}

VARIABLES
  app,     \* app[p]: the program: "off", "connecting", "run", "wait" (in
           \* pthread_cond_wait), "woken", "joining" (in uvm_exit), "gone"
  wanted,  \* wanted[p]: the request the program waits for
  result,  \* result[p]: uvm->result, page index, NULL or Einval
  npages,  \* npages[p]: uvm->npages
  uvm,     \* uvm[p]: uvm_thread runs
  ops,     \* ops[p]: what is left of MaxOps
  toMmu,   \* toMmu[p], toCli[p]: the two directions of the socket of p
  toCli,
  thr,     \* thr[p]: where the mmu_client_thread of p is
  req,     \* req[p]: the request that thread peeked at or serves
  search,  \* search[p]: mmu->sock2client has an entry for p
  locker,  \* the p whose thread holds `locker', or NoPid
  calls,   \* MMU calls the holder of `locker' still has to make
  mmu      \* "up", "killed" (SIGPIPE or SIGSEGV) or "aborted": it is in
           \* mmu_destroy and exits, or locks `locker' again and waits there

pagerVars == <<frames, sec_chance_index, blocks, pages, count>>
cliVars == <<app, wanted, result, npages, uvm, ops>>
thrVars == <<thr, req, search, locker, calls, mmu>>
sysVars == <<vars, cliVars, toMmu, toCli, thrVars>>

SysInit ==
  /\ Init
  /\ app = [p \in Pids |-> "off"]
  /\ wanted = [p \in Pids |-> NULL]
  /\ result = [p \in Pids |-> NULL]
  /\ npages = [p \in Pids |-> 0]
  /\ uvm = [p \in Pids |-> FALSE]
  /\ ops = MaxOps
  /\ toMmu = [p \in Pids |-> <<>>]
  /\ toCli = [p \in Pids |-> <<>>]
  /\ thr = [p \in Pids |-> "off"]
  /\ req = [p \in Pids |-> NULL]
  /\ search = [p \in Pids |-> FALSE]
  /\ locker = NoPid
  /\ calls = <<>>
  /\ mmu = "up"

Put(chan, p, msg) == [chan EXCEPT ![p] = Append(@, msg)]
Take(chan, p) == [chan EXCEPT ![p] = Tail(@)]

-----------------------------------------------------------------------------
(* The program *)

\* uvm_create connects; the accept loop starts a thread for the socket.
uvm_create(p) ==
  /\ app[p] = "off"
  /\ app' = [app EXCEPT ![p] = "connecting"]
  /\ toMmu' = Put(toMmu, p, [type |-> "CREATE_REQ"])
  /\ thr' = [thr EXCEPT ![p] = "recv"]
  /\ search' = [search EXCEPT ![p] = TRUE]
  /\ UNCHANGED <<vars, wanted, result, npages, uvm, ops, toCli, req, locker,
                 calls, mmu>>

\* uvm_create gets its CREATE_REP itself, then starts uvm_thread.
uvm_created(p) ==
  /\ app[p] = "connecting"
  /\ toCli[p] # <<>>
  /\ toCli' = Take(toCli, p)
  /\ app' = [app EXCEPT ![p] = "run"]
  /\ uvm' = [uvm EXCEPT ![p] = TRUE]
  /\ UNCHANGED <<vars, wanted, result, npages, ops, toMmu, thrVars>>

\* Under uvm->mutex: send the request and wait on the condition variable.
\* uvm_thread handles no message between the two.
Request(p, msg) ==
  /\ app[p] = "run"
  /\ ops[p] > 0
  /\ ops' = [ops EXCEPT ![p] = @ - 1]
  /\ toMmu' = Put(toMmu, p, msg)
  /\ app' = [app EXCEPT ![p] = "wait"]
  /\ wanted' = [wanted EXCEPT ![p] = msg.type]
  /\ UNCHANGED <<vars, result, npages, uvm, toCli, thrVars>>

uvm_extend(p) ==
  /\ npages[p] < MaxPages
  /\ Request(p, [type |-> "EXTEND_REQ"])

\* uvm_syslog, for the range of page i, which need not be allocated.
uvm_syslog(p, i) ==
  /\ <<p, i>> \in SyslogPages
  /\ Request(p, [type |-> "SYSLOG_REQ", i |-> i])

\* An access to page i that its protection forbids.
uvm_segv_action(p, i) ==
  /\ i < npages[p]
  /\ pte[<<p, i>>].prot # "RW"
  /\ Request(p, [type |-> "SEGV_REQ", i |-> i])

\* Mutant: uvm_extend counts a page whatever the result is.
ResumeUnchecked(p) ==
  /\ app[p] = "woken"
  /\ app' = [app EXCEPT ![p] = "run"]
  /\ npages' = IF wanted[p] = "EXTEND_REQ" THEN [npages EXCEPT ![p] = @ + 1] ELSE npages
  /\ UNCHANGED <<vars, wanted, result, uvm, ops, toMmu, toCli, thrVars>>

\* Return from pthread_cond_wait.
Resume(p) ==
  /\ app[p] = "woken"
  /\ app' = [app EXCEPT ![p] = "run"]
  /\ npages' = IF wanted[p] = "EXTEND_REQ" /\ result[p] # NULL
               THEN [npages EXCEPT ![p] = @ + 1] ELSE npages
  /\ UNCHANGED <<vars, wanted, result, uvm, ops, toMmu, toCli, thrVars>>

SpuriousWakeup(p) ==
  /\ p \in MayWakeEarly
  /\ app[p] = "wait"
  /\ ops[p] > 0
  /\ ops' = [ops EXCEPT ![p] = @ - 1]
  /\ app' = [app EXCEPT ![p] = "woken"]
  /\ UNCHANGED <<vars, wanted, result, npages, uvm, toMmu, toCli, thrVars>>

Store(p, i, v) ==
  /\ app[p] = "run"
  /\ ops[p] > 0
  /\ i < npages[p]
  /\ pte[<<p, i>>].prot = "RW"
  /\ ops' = [ops EXCEPT ![p] = @ - 1]
  /\ pmem' = [pmem EXCEPT ![pte[<<p, i>>].frame] = v]
  /\ UNCHANGED <<pagerVars, disk, pte, client, app, wanted, result, npages, uvm,
                 toMmu, toCli, thrVars>>

\* exit: uvm_exit sends EXIT_REQ and joins uvm_thread.
uvm_exit(p) ==
  /\ app[p] = "run"
  /\ app' = [app EXCEPT ![p] = "joining"]
  /\ client' = [client EXCEPT ![p] = "exiting"]
  /\ toMmu' = Put(toMmu, p, [type |-> "EXIT_REQ"])
  /\ UNCHANGED <<pagerVars, pmem, disk, pte, wanted, result, npages, uvm, ops,
                 toCli, thrVars>>

\* The process is killed: the kernel closes its end of the socket.
Die(p) ==
  /\ p \in MayDie
  /\ app[p] \in {"run", "wait", "woken", "joining"}
  /\ app' = [app EXCEPT ![p] = "gone"]
  /\ uvm' = [uvm EXCEPT ![p] = FALSE]
  /\ client' = [client EXCEPT ![p] = "exiting"]
  /\ toCli' = [toCli EXCEPT ![p] = <<>>]
  /\ UNCHANGED <<pagerVars, pmem, disk, pte, wanted, result, npages, ops, toMmu,
                 thrVars>>

-----------------------------------------------------------------------------
(* uvm_thread: every handler runs under uvm->mutex *)

uvm_recv(p, type) ==
  /\ uvm[p]
  /\ toCli[p] # <<>>
  /\ Head(toCli[p]).type = type

\* pthread_cond_signal: lost when the program does not wait.
Signalled(p) == IF app[p] = "wait" THEN [app EXCEPT ![p] = "woken"] ELSE app

uvm_proto_extend_rep(p) ==
  /\ uvm_recv(p, "EXTEND_REP")
  /\ result' = [result EXCEPT ![p] = Head(toCli[p]).i]
  /\ app' = Signalled(p)
  /\ toCli' = Take(toCli, p)
  /\ UNCHANGED <<vars, wanted, npages, uvm, ops, toMmu, thrVars>>

\* The retcode goes where uvm_extend looks for its pointer.
uvm_proto_syslog_rep(p) ==
  /\ uvm_recv(p, "SYSLOG_REP")
  /\ result' = [result EXCEPT ![p] = Head(toCli[p]).i]
  /\ app' = Signalled(p)
  /\ toCli' = Take(toCli, p)
  /\ UNCHANGED <<vars, wanted, npages, uvm, ops, toMmu, thrVars>>

uvm_proto_segv_rep(p) ==
  /\ uvm_recv(p, "SEGV_REP")
  /\ app' = Signalled(p)
  /\ toCli' = Take(toCli, p)
  /\ UNCHANGED <<vars, wanted, result, npages, uvm, ops, toMmu, thrVars>>

\* munmap, mmap and mprotect, then the answer.
uvm_proto_remap_rep(p) ==
  /\ uvm_recv(p, "REMAP_REP")
  /\ LET rep == Head(toCli[p]) IN
       pte' = [pte EXCEPT ![<<p, rep.i>>] = [frame |-> rep.frame, prot |-> rep.prot]]
  /\ toCli' = Take(toCli, p)
  /\ toMmu' = Put(toMmu, p, [type |-> "REMAP_REQ"])
  /\ UNCHANGED <<pagerVars, pmem, disk, client, cliVars, thrVars>>

\* mprotect, then the answer; the mapping stays.
uvm_proto_chprot_rep(p) ==
  /\ uvm_recv(p, "CHPROT_REP")
  /\ LET rep == Head(toCli[p]) IN
       pte' = [pte EXCEPT ![<<p, rep.i>>].prot = rep.prot]
  /\ toCli' = Take(toCli, p)
  /\ toMmu' = Put(toMmu, p, [type |-> "CHPROT_REQ"])
  /\ UNCHANGED <<pagerVars, pmem, disk, client, cliVars, thrVars>>

\* EXIT_REP stops uvm_thread and ends the pthread_join of uvm_exit.
uvm_exit_rep(p) ==
  /\ uvm_recv(p, "EXIT_REP")
  /\ uvm' = [uvm EXCEPT ![p] = FALSE]
  /\ app' = [app EXCEPT ![p] = "gone"]
  /\ toCli' = Take(toCli, p)
  /\ UNCHANGED <<vars, wanted, result, npages, ops, toMmu, thrVars>>

-----------------------------------------------------------------------------
(* mmu_client_thread *)

\* Mutant: mmu_client_thread has no case for CHPROT_REQ.
OnlyRemapIsPagers == {"REMAP_REQ"}

\* Messages that the thread in the pager waits for, not this one.
PagerMessages == {"REMAP_REQ", "CHPROT_REQ"}

\* recv with MSG_PEEK in the loop of mmu_client_thread.
mmu_peek(p) ==
  /\ mmu = "up"
  /\ thr[p] = "recv"
  /\ toMmu[p] # <<>>
  /\ Head(toMmu[p]).type \notin PagerMessages
  /\ thr' = [thr EXCEPT ![p] = "peeked"]
  /\ req' = [req EXCEPT ![p] = Head(toMmu[p])]
  /\ UNCHANGED <<vars, cliVars, toMmu, toCli, search, locker, calls, mmu>>

\* The recv of the handler that mmu_client_thread chose.
mmu_recv(p) ==
  /\ mmu = "up"
  /\ thr[p] = "peeked"
  /\ toMmu[p] # <<>>
  /\ thr' = [thr EXCEPT ![p] = "lock"]
  /\ toMmu' = Take(toMmu, p)
  /\ UNCHANGED <<vars, cliVars, toCli, req, search, locker, calls, mmu>>

\* End of file: mmu_client_destroy closes the socket and then calls the pager.
mmu_eof(p) ==
  /\ mmu = "up"
  /\ thr[p] = "recv"
  /\ toMmu[p] = <<>>
  /\ app[p] = "gone"
  /\ thr' = [thr EXCEPT ![p] = "destroy"]
  /\ search' = [search EXCEPT ![p] = FALSE]
  /\ UNCHANGED <<vars, cliVars, toMmu, toCli, req, locker, calls, mmu>>

\* The thread of p takes the free locker to serve a request of this type.
TakeLocker(p, type) ==
  /\ mmu = "up"
  /\ thr[p] = "lock"
  /\ req[p].type = type
  /\ locker = NoPid

\* A pager_* function without MMU calls: it releases the locker at once.  The
\* reply takes the place of the request.
Served(p, rep) ==
  /\ thr' = [thr EXCEPT ![p] = "reply"]
  /\ req' = [req EXCEPT ![p] = rep]
  /\ UNCHANGED <<cliVars, toMmu, toCli, search, locker, calls, mmu>>

mmu_client_create(p) ==
  /\ TakeLocker(p, "CREATE_REQ")
  /\ pager_create(p)
  /\ Served(p, [type |-> "CREATE_REP"])

mmu_client_extend(p) ==
  /\ TakeLocker(p, "EXTEND_REQ")
  /\ \/ /\ count[p] < MaxPages
        /\ ExtendTables(p)
        /\ Served(p, [type |-> "EXTEND_REP", i |-> count[p]])
     \/ /\ \A b \in Blocks : blocks[b].page # NULL
        /\ Served(p, [type |-> "EXTEND_REP", i |-> NULL])
        /\ UNCHANGED pagerVars
  /\ UNCHANGED <<pmem, disk, pte, client>>

\* pager_syslog only prints (see PagerSyslog).
mmu_client_syslog(p) ==
  /\ TakeLocker(p, "SYSLOG_REQ")
  /\ Served(p, [type |-> "SYSLOG_REP",
                i |-> IF Listed(<<p, req[p].i>>) THEN NULL ELSE Einval])
  /\ UNCHANGED vars

\* The page that the request of p names has never been in a frame: its
\* frame_number is what malloc left.
NeverLoaded(p) ==
  Listed(<<p, req[p].i>>) /\ pages[<<p, req[p].i>>].frame_number = Unset

\* pager_syslog takes such a number for an index of pmem, and may end up at an
\* address that is not mapped.
mmu_client_syslog_wild(p) ==
  /\ TakeLocker(p, "SYSLOG_REQ")
  /\ NeverLoaded(p)
  /\ mmu' = "killed"
  /\ UNCHANGED <<vars, cliVars, toMmu, toCli, thr, req, search, locker, calls>>

mmu_client_exit(p) ==
  /\ TakeLocker(p, "EXIT_REQ")
  /\ pager_destroy(p)
  /\ Served(p, [type |-> "EXIT_REP"])

\* The second half of mmu_client_destroy.
mmu_client_destroy(p) ==
  /\ mmu = "up"
  /\ thr[p] = "destroy"
  /\ locker = NoPid
  /\ pager_destroy(p)
  /\ thr' = [thr EXCEPT ![p] = "done"]
  /\ UNCHANGED <<cliVars, toMmu, toCli, req, search, locker, calls, mmu>>

\* Mutant: mmu_chprot and mmu_nonresident do not wait for the client.
WaitsOnlyForRemap == {"resident"}

\* MMU calls that wait for the client's answer, and the answer they wait for.
WaitingCalls == {"chprot", "nonresident", "resident"}
Answer(call) == IF call.op = "resident" THEN "REMAP_REQ" ELSE "CHPROT_REQ"

Chprot(pg, prot) == [op |-> "chprot", page |-> pg, prot |-> prot]
Nonresident(pg) == [op |-> "nonresident", page |-> pg, prot |-> "NONE"]
Transfer(op, pg, f) ==
  [op |-> op, page |-> pg, frame |-> f, block |-> pages[pg].block_number]

\* Mutant: the victim is written to disk before it is taken from its process.
SwapOutCallsWriteFirst(v) ==
  LET old == frames[v].page IN
  (IF WriteBack(v) THEN <<Transfer("disk_write", old, v)>> ELSE <<>>)
    \o <<Nonresident(old)>>

\* Mutant: the contents of the victim are not written to disk.
SwapOutCallsNoWrite(v) ==
  (IF v = 0 THEN [j \in 1..NFrames |-> Chprot(frames[j - 1].page, "NONE")]
            ELSE <<>>)
    \o <<Nonresident(frames[v].page)>>

\* The MMU calls of swap_out_page(v).
SwapOutCalls(v) ==
  LET old == frames[v].page IN
  (IF v = 0 THEN [j \in 1..NFrames |-> Chprot(frames[j - 1].page, "NONE")]
            ELSE <<>>)
    \o <<Nonresident(old)>>
    \o (IF WriteBack(v) THEN <<Transfer("disk_write", old, v)>> ELSE <<>>)

\* Mutant: the page is mapped before its frame is filled.
LoadCallsMapFirst(pg, f, bt) ==
  <<[op |-> "resident", page |-> pg, frame |-> f, prot |-> "READ"],
    Transfer(IF bt[pages[pg].block_number].used = 1 THEN "disk_read"
             ELSE "zero_fill", pg, f)>>

\* The MMU calls of pager_fault that bring page pg into frame f.
LoadCalls(pg, f, bt) ==
  <<Transfer(IF bt[pages[pg].block_number].used = 1 THEN "disk_read"
             ELSE "zero_fill", pg, f),
    [op |-> "resident", page |-> pg, frame |-> f, prot |-> "READ"]>>

\* A fault on a page that is not in the page list of its process: pager_fault
\* dereferences the null pointer of get_page.
mmu_client_segv_unlisted(p) ==
  /\ TakeLocker(p, "SEGV_REQ")
  /\ ~Listed(<<p, req[p].i>>)
  /\ mmu' = "killed"
  /\ UNCHANGED <<vars, cliVars, toMmu, toCli, thr, req, search, locker, calls>>

\* pager_fault takes the locker, changes the tables and has its calls to make.
mmu_client_segv(p) ==
  LET pg == <<p, req[p].i>> IN
  /\ TakeLocker(p, "SEGV_REQ")
  /\ Listed(pg)
  /\ locker' = p
  /\ thr' = [thr EXCEPT ![p] = "calls"]
  /\ \/ ValidTables(pg) /\ calls' = <<Chprot(pg, "RW")>>
     \/ \E f \in Frames :
          FreeFrameTables(pg, f) /\ calls' = LoadCalls(pg, f, blocks)
     \/ \E k \in 0..NFrames :
          /\ EvictTables(pg, k)
          /\ calls' = SwapOutCalls(HandAt(k)) \o LoadCalls(pg, HandAt(k), blocks')
  /\ UNCHANGED <<pmem, disk, pte, client, cliVars, toMmu, toCli, req, search, mmu>>

\* send to a client: SIGPIPE ends the MMU when the other end is closed, and
\* mmu_client_search ends it when the client has no entry.
Send(p, msg) ==
  IF app[p] = "gone" THEN mmu' = "killed" /\ UNCHANGED toCli
  ELSE toCli' = Put(toCli, p, msg) /\ UNCHANGED mmu

\* The thread of p, holding the locker, is at its next MMU call.
AtCall(p, ops_) ==
  /\ mmu = "up"
  /\ locker = p
  /\ thr[p] = "calls"
  /\ calls # <<>>
  /\ Head(calls).op \in ops_

\* The message a waiting call sends.
Message(call) ==
  IF call.op = "resident"
  THEN [type |-> "REMAP_REP", i |-> call.page[2], frame |-> call.frame, prot |-> call.prot]
  ELSE [type |-> "CHPROT_REP", i |-> call.page[2], prot |-> call.prot]

mmu_call_send(p) ==
  LET q == Head(calls).page[1] IN
  /\ AtCall(p, {"chprot", "nonresident", "resident"})
  /\ IF search[q] THEN Send(q, Message(Head(calls)))
     ELSE mmu' = "aborted" /\ UNCHANGED toCli
  /\ IF Head(calls).op \in WaitingCalls
     THEN thr' = [thr EXCEPT ![p] = "awaiting"] /\ UNCHANGED calls
     ELSE calls' = Tail(calls) /\ UNCHANGED thr
  /\ UNCHANGED <<vars, cliVars, toMmu, req, search, locker>>

\* The do-while loop peeks until the answer is the next message.
mmu_call_peek(p) ==
  LET q == Head(calls).page[1] IN
  /\ mmu = "up"
  /\ thr[p] = "awaiting"
  /\ toMmu[q] # <<>>
  /\ Head(toMmu[q]).type = Answer(Head(calls))
  /\ thr' = [thr EXCEPT ![p] = "answered"]
  /\ UNCHANGED <<vars, cliVars, toMmu, toCli, req, search, locker, calls, mmu>>

mmu_call_recv(p) ==
  LET q == Head(calls).page[1] IN
  /\ mmu = "up"
  /\ thr[p] = "answered"
  /\ toMmu[q] # <<>>
  /\ toMmu' = Take(toMmu, q)
  /\ thr' = [thr EXCEPT ![p] = "calls"]
  /\ calls' = Tail(calls)
  /\ UNCHANGED <<vars, cliVars, toCli, req, search, locker, mmu>>

\* End of file while waiting for the answer: mmu_client_destroy calls
\* pager_destroy, which locks `locker' again; this thread never returns.
mmu_call_eof(p) ==
  LET q == Head(calls).page[1] IN
  /\ mmu = "up"
  /\ thr[p] = "awaiting"
  /\ toMmu[q] = <<>>
  /\ app[q] = "gone"
  /\ thr' = [thr EXCEPT ![p] = "stuck"]
  /\ search' = [search EXCEPT ![q] = FALSE]
  /\ UNCHANGED <<vars, cliVars, toMmu, toCli, req, locker, calls, mmu>>

mmu_disk_write(p) ==
  /\ AtCall(p, {"disk_write"})
  /\ disk' = [disk EXCEPT ![Head(calls).block] = pmem[Head(calls).frame]]
  /\ calls' = Tail(calls)
  /\ UNCHANGED <<pagerVars, pmem, pte, client, cliVars, toMmu, toCli, thr, req,
                 search, locker, mmu>>

mmu_fill(p) ==
  /\ AtCall(p, {"disk_read", "zero_fill"})
  /\ pmem' = [pmem EXCEPT ![Head(calls).frame] =
                IF Head(calls).op = "disk_read" THEN disk[Head(calls).block] ELSE Zero]
  /\ calls' = Tail(calls)
  /\ UNCHANGED <<pagerVars, disk, pte, client, cliVars, toMmu, toCli, thr, req,
                 search, locker, mmu>>

\* Mutant: a return of pager_fault without the unlock.
mmu_fault_done_locked(p) ==
  /\ mmu = "up"
  /\ locker = p
  /\ thr[p] = "calls"
  /\ calls = <<>>
  /\ thr' = [thr EXCEPT ![p] = "reply"]
  /\ req' = [req EXCEPT ![p] = [type |-> "SEGV_REP"]]
  /\ UNCHANGED <<vars, cliVars, toMmu, toCli, search, locker, calls, mmu>>

\* pager_fault returns: the locker is released, the reply not yet sent.
mmu_fault_done(p) ==
  /\ mmu = "up"
  /\ locker = p
  /\ thr[p] = "calls"
  /\ calls = <<>>
  /\ locker' = NoPid
  /\ thr' = [thr EXCEPT ![p] = "reply"]
  /\ req' = [req EXCEPT ![p] = [type |-> "SEGV_REP"]]
  /\ UNCHANGED <<vars, cliVars, toMmu, toCli, search, calls, mmu>>

\* The reply; after EXIT_REP the thread ends.
mmu_reply(p) ==
  /\ mmu = "up"
  /\ thr[p] = "reply"
  /\ Send(p, req[p])
  /\ IF req[p].type = "EXIT_REP"
     THEN /\ thr' = [thr EXCEPT ![p] = "done"]
          /\ search' = [search EXCEPT ![p] = FALSE]
     ELSE thr' = [thr EXCEPT ![p] = "recv"] /\ UNCHANGED search
  /\ UNCHANGED <<vars, cliVars, toMmu, req, locker, calls>>

-----------------------------------------------------------------------------
Program(p) ==
  \/ uvm_create(p)
  \/ uvm_extend(p)
  \/ \E i \in 0..(MaxPages - 1) :
       uvm_segv_action(p, i) \/ uvm_syslog(p, i) \/ \E v \in Values : Store(p, i, v)
  \/ uvm_exit(p)
  \/ SpuriousWakeup(p)
  \/ Die(p)

\* What the program does without deciding to: it returns from its waits.
Returns(p) == uvm_created(p) \/ Resume(p)

UvmThread(p) ==
  \/ uvm_proto_extend_rep(p)
  \/ uvm_proto_syslog_rep(p)
  \/ uvm_proto_segv_rep(p)
  \/ uvm_proto_remap_rep(p)
  \/ uvm_proto_chprot_rep(p)
  \/ uvm_exit_rep(p)

ClientThread(p) ==
  \/ mmu_peek(p)
  \/ mmu_recv(p)
  \/ mmu_eof(p)
  \/ mmu_client_create(p)
  \/ mmu_client_extend(p)
  \/ mmu_client_segv(p)
  \/ mmu_client_segv_unlisted(p)
  \/ mmu_client_syslog(p)
  \/ mmu_client_syslog_wild(p)
  \/ mmu_client_exit(p)
  \/ mmu_client_destroy(p)
  \/ mmu_call_send(p)
  \/ mmu_call_peek(p)
  \/ mmu_call_recv(p)
  \/ mmu_call_eof(p)
  \/ mmu_disk_write(p)
  \/ mmu_fill(p)
  \/ mmu_fault_done(p)
  \/ mmu_reply(p)

\* Every program has ended and every thread with it.
AllDone ==
  /\ \A p \in Pids : app[p] = "gone" /\ thr[p] = "done"
  /\ UNCHANGED sysVars

SysNext ==
  \/ \E p \in Pids : Program(p) \/ Returns(p) \/ UvmThread(p) \/ ClientThread(p)
  \/ AllDone

\* The threads run: none of them is delayed for ever at a step it can take.
Fairness ==
  \A p \in Pids :
    /\ WF_sysVars(Returns(p))
    /\ WF_sysVars(UvmThread(p))
    /\ WF_sysVars(ClientThread(p))

SysSpec == SysInit /\ [][SysNext]_sysVars
FairSpec == SysSpec /\ Fairness

-----------------------------------------------------------------------------
(* Correctness properties *)

Requests == {"CREATE_REQ", "EXTEND_REQ", "SYSLOG_REQ", "SEGV_REQ", "EXIT_REQ",
             "REMAP_REQ", "CHPROT_REQ"}
Replies == {"CREATE_REP", "EXTEND_REP", "SYSLOG_REP", "SEGV_REP", "EXIT_REP",
            "REMAP_REP", "CHPROT_REP"}
Serving == {"calls", "awaiting", "answered", "stuck"}

\* Types, and the locker: its holder is the one thread inside a pager call and
\* nobody has MMU calls to make while it is free (pager_fault takes it first
\* and releases it last).
SysTypeOK ==
  /\ TypeOK
  /\ app \in [Pids -> {"off", "connecting", "run", "wait", "woken", "joining", "gone"}]
  /\ result \in [Pids -> 0..(MaxPages - 1) \cup {NULL, Einval}]
  /\ npages \in [Pids -> 0..MaxPages]
  /\ thr \in [Pids -> {"off", "recv", "peeked", "lock", "reply", "destroy", "done"} \cup Serving]
  /\ \A p \in Pids :
       /\ \A j \in DOMAIN toMmu[p] : toMmu[p][j].type \in Requests
       /\ \A j \in DOMAIN toCli[p] : toCli[p][j].type \in Replies
       /\ locker = p <=> thr[p] \in Serving
  /\ locker = NoPid => calls = <<>>
  /\ mmu \in {"up", "aborted", "killed"}

\* The program of page pg can access it now.
CanAccess(pg) ==
  app[pg[1]] \in {"run", "wait", "woken"} /\ pte[pg].prot # "NONE"

\* While the pager copies a frame to disk or fills it, no process has access
\* to that frame: the calls that take the access away have come into effect
\* in the client before mmu_disk_write, mmu_disk_read or mmu_zero_fill run.
TransfersAreExclusive ==
  calls # <<>> /\ Head(calls).op \in {"disk_write", "disk_read", "zero_fill"} =>
    \A pg \in PageIds : CanAccess(pg) => pte[pg].frame # Head(calls).frame

\* Contents of page pg in the middle of a fault: a page that is being evicted
\* is in its frame until it is written, one that is being loaded is on its
\* block until its frame is filled.
Pending(ops_, pg) ==
  \E j \in DOMAIN calls : calls[j].op \in ops_ /\ calls[j].page = pg
SysContent(pg) ==
  IF Pending({"disk_write"}, pg) THEN pmem[pages[pg].frame_number]
  ELSE IF Pending({"disk_read", "zero_fill"}, pg) THEN Backing(pg)
  ELSE Content(pg)

\* A page a program can read shows its contents, at every moment of the faults
\* of this and of the other processes.
ReadsAreCorrect ==
  \A pg \in PageIds : CanAccess(pg) => pmem[pte[pg].frame] = SysContent(pg)

\* The assertions of mmu.c on the type of the message received hold although
\* two threads peek at the same socket.
AssertionsHold ==
  /\ \A p \in Pids : thr[p] = "peeked" => toMmu[p] # <<>> /\ Head(toMmu[p]) = req[p]
  /\ \A p \in Pids : thr[p] = "answered" =>
       LET q == Head(calls).page[1] IN
       toMmu[q] # <<>> /\ Head(toMmu[q]).type = Answer(Head(calls))

\* The same when clients are killed in the middle of a request or wake up early:
\* as long as the MMU runs, the other programs read right contents, no frame is
\* copied under the hands of its process, and no assertion fails.
FaultsAreContained == TransfersAreExclusive /\ ReadsAreCorrect /\ AssertionsHold

\* When pager_fault is through, and until it releases the locker, the page that
\* faulted is mapped on its frame with the right the pager believes it has: also one
\* that was resident and hidden, and whatever messages of other calls came before.
FaultsGiveAccess ==
  \A p \in Pids : thr[p] = "calls" /\ calls = <<>> =>
    LET pg == <<p, req[p].i>> IN
    pte[pg] = [frame |-> pages[pg].frame_number,
               prot |-> IF pages[pg].dirty = 1 THEN "RW" ELSE "READ"]

\* A program that runs has no request under way, and its count of pages is
\* the pager's (uvm_segv_action trusts it to tell its pages from others).
RunsWhenServed ==
  \A p \in Pids : app[p] = "run" =>
    /\ thr[p] = "recv"
    /\ \A j \in DOMAIN toMmu[p] : toMmu[p][j].type \in PagerMessages
    /\ \A j \in DOMAIN toCli[p] : toCli[p][j].type = "CHPROT_REP"
    /\ npages[p] = count[p]

sysMem ==
  [pg \in PageIds |-> IF client[pg[1]] = "live" /\ Listed(pg)
                      THEN SysContent(pg) ELSE Unset]

SM == INSTANCE PageMemory
        WITH InitialContents <- Values, NoContents <- Unset,
             status <- absStatus, size <- absSize, mem <- sysMem

\* The contents of a page that exists change only in a store of its program.
OnlyStoresChange ==
  \A pg \in PageIds :
    sysMem[pg] # Unset /\ sysMem'[pg] \notin {Unset, sysMem[pg]} =>
      \E v \in Values : Store(pg[1], pg[2], v) /\ sysMem'[pg] = v

\* Threads, sockets and MMU calls together still give every process a private
\* memory that holds the last value stored.
SystemImplementsPageMemory == SM!Spec /\ [][OnlyStoresChange]_sysVars

\* The MMU has died in pager_syslog, of a page that was never in a frame.
DiedInSyslog ==
  \E p \in Pids :
    mmu = "killed" /\ thr[p] = "lock" /\ req[p].type = "SYSLOG_REQ" /\ NeverLoaded(p)

\* A killed client has ended the MMU (SIGPIPE, or a search in mmu_client_search) or
\* has left a thread in pager_destroy that holds the locker it waits for.
LostToDeath ==
  /\ \E q \in MayDie : app[q] = "gone"
  /\ mmu # "up" \/ \E h \in Pids : thr[h] = "stuck"

\* A client that woke early has sent a second request: for a page that the pager has
\* not listed yet, or ahead of the answer that the holder of the locker waits for,
\* while the thread that should receive it waits for the locker.
LostToWakeup ==
  \E q \in MayWakeEarly :
    \/ mmu = "killed" /\ thr[q] = "lock" /\ req[q].type = "SEGV_REQ" /\ ~ Listed(<<q, req[q].i>>)
    \/ \E h \in Pids :
         /\ thr[h] = "awaiting" /\ Head(calls).page[1] = q
         /\ thr[q] \in {"lock", "awaiting"}
         /\ toMmu[q] # <<>> /\ Head(toMmu[q]).type \notin PagerMessages

\* Every extension, every fault and every uvm_syslog is served, whatever clients evict
\* each other.  Nothing but these three faults of the code ends the service of a client
\* that lives; while nobody is killed or wakes early that leaves the index that
\* pager_syslog has no frame for.
RequestsAreServed ==
  \A p \in Pids :
    app[p] = "wait" ~> app[p] # "wait" \/ DiedInSyslog \/ LostToDeath \/ LostToWakeup

-----------------------------------------------------------------------------
(* Statements of the sources that the code does not meet *)

\* pager.h: pager_destroy frees the resources of a process that is dead.  As
\* long as the MMU runs, that happens for every process that ends.
DeadClientsAreReclaimed ==
  \A p \in Pids : app[p] = "gone" ~> client[p] = "dead" \/ mmu # "up"
=============================================================================
