-------------------------------- MODULE UdpNat --------------------------------
(***************************************************************************)
(* udpnat.Service (src/common/udpnat/service.go): the first packet of a    *)
(* source makes a connection in an LruCache and starts its handler, the    *)
(* others are put into the connection's queue.  What leaves the table is   *)
(* closed by onEvict.  Several goroutines send; each step below is what    *)
(* happens between two points where another goroutine can come in.         *)
(***************************************************************************)
EXTENDS LruCache

CONSTANTS NatSources,           \* the keys
          Senders,           \* goroutines that call NewContextPacketEx
          NatMaxAge,         \* WithAge
          QueueSize,         \* 64 in the code
          MaxSends, MaxNatConns, \* bounds: packets and connections
          MaxFaults          \* bound: handlers that return, seconds that pass, Cancel

ASSUME UdpNatAssumption == QueueSize \in Nat \ {0} /\ NatMaxAge \in Nat \ {0}

NatOptions == [maxAge |-> NatMaxAge, maxSize |-> 0, updateAgeOnGet |-> TRUE, staleReturn |-> FALSE]

VARIABLES
  nat,        \* the table: keys and connections
  time,
  natCtxDone,    \* the context that the senders pass
  ex,         \* there is a handlerEx
  natConns,      \* the connections, in the order they were made
  sender,     \* what each sender is doing, and for which packet
  sends,      \* packets so far
  faults      \* how many of MaxFaults there were

natVars == <<nat, time, natCtxDone, ex, natConns, sender, sends, faults>>

\* late: it was done before init gave it the writer to its source.
NewConn(k) ==
  [key |-> k, done |-> natCtxDone, data |-> <<>>, handler |-> "none", got |-> <<>>,
   source |-> FALSE, sourceClosed |-> FALSE, late |-> FALSE]

IdleSender == [at |-> "idle", key |-> Miss, packet |-> 0, conn |-> 0]

NatInit ==
  /\ nat = <<>> /\ time = 0 /\ natCtxDone = FALSE /\ ex \in BOOLEAN
  /\ natConns = <<>> /\ sender = [s \in Senders |-> IdleSender] /\ sends = 0 /\ faults = 0

\* closeConn: the context, and the writer to the source when it is there.
closeConn(cs, c) ==
  [cs EXCEPT ![c].done = TRUE, ![c].sourceClosed = @ \/ cs[c].source]

\* Mutation: an eviction leaves the connection open.
EvictsNothing(cs, evicts) == cs

\* onEvict, for each entry that a method of the table evicts
CloseEvicted(cs, evicts) ==
  [c \in DOMAIN cs |->
    IF \E i \in 1 .. Len(evicts) : evicts[i].value = c THEN closeConn(cs, c)[c] ELSE cs[c]]

\* nat.Delete(key)
DeleteSource(cs, k) ==
  LET o == deleteKey(nat, k) IN nat' = o.lru /\ natConns' = CloseEvicted(cs, o.evicts)

\* A sender gets the connection of its packet's key, or makes it.
Lookup(s, k, p) ==
  LET o == LoadOrStore(NatOptions, nat, k, NatMaxAge, Len(natConns) + 1, time)
      new == o.value > Len(natConns)
      all == IF new THEN Append(natConns, NewConn(k)) ELSE natConns
  IN /\ Len(all) <= MaxNatConns
     /\ nat' = o.lru
     /\ natConns' = CloseEvicted(all, o.evicts)
     /\ sender' = [sender EXCEPT ![s] = [at |-> IF new THEN "init" ELSE "check",
                                         key |-> k, packet |-> p, conn |-> o.value]]

NewPacket(s) ==
  /\ sender[s].at = "idle" /\ sends < MaxSends
  /\ \E k \in NatSources : Lookup(s, k, sends + 1)
  /\ sends' = sends + 1
  /\ UNCHANGED <<time, natCtxDone, ex, faults>>

\* init, and the goroutine of the handler.
InitConn(s) ==
  /\ sender[s].at = "init"
  /\ natConns' = [natConns EXCEPT ![sender[s].conn] = [@ EXCEPT !.source = TRUE, !.handler = "reading", !.late = natConns[sender[s].conn].done]]
  /\ sender' = [sender EXCEPT ![s].at = "check"]
  /\ UNCHANGED <<nat, time, natCtxDone, ex, sends, faults>>

\* The connection is done: its key is deleted, and the packet starts again
\* unless the caller's own context is done.
CheckDone(s) ==
  /\ sender[s].at = "check"
  /\ IF natConns[sender[s].conn].done
     THEN DeleteSource(natConns, sender[s].key) /\ sender' = [sender EXCEPT ![s].at = "again"]
     ELSE sender' = [sender EXCEPT ![s].at = "send"] /\ UNCHANGED <<nat, natConns>>
  /\ UNCHANGED <<time, natCtxDone, ex, sends, faults>>

\* Mutation: the packet starts again whatever the caller's context says.
RetryAlways(s) ==
  /\ sender[s].at = "again" /\ Lookup(s, sender[s].key, sender[s].packet)
  /\ UNCHANGED <<time, natCtxDone, ex, sends, faults>>

Retry(s) ==
  /\ sender[s].at = "again"
  /\ IF natCtxDone THEN sender' = [sender EXCEPT ![s] = IdleSender] /\ UNCHANGED <<nat, natConns>>
     ELSE Lookup(s, sender[s].key, sender[s].packet)
  /\ UNCHANGED <<time, natCtxDone, ex, sends, faults>>

\* c.data <- packet: blocks while the queue is full, for ever once nobody
\* reads it; the connection may have been closed since it was checked.
Enqueue(s) ==
  LET c == sender[s].conn
  IN /\ sender[s].at = "send" /\ Len(natConns[c].data) < QueueSize
     /\ natConns' = [natConns EXCEPT ![c].data = Append(@, [from |-> s, packet |-> sender[s].packet, key |-> sender[s].key])]
     /\ sender' = [sender EXCEPT ![s] = IdleSender]
     /\ UNCHANGED <<nat, time, natCtxDone, ex, sends, faults>>

\* ReadPacket and WaitReadPacket: a packet when there is one; a select may
\* take it though the connection is done.
HandlerRead(c) ==
  /\ natConns[c].handler = "reading" /\ natConns[c].data # <<>>
  /\ natConns' = [natConns EXCEPT ![c].got = Append(@, Head(natConns[c].data)), ![c].data = Tail(@)]
  /\ UNCHANGED <<nat, time, natCtxDone, ex, sender, sends, faults>>

\* The handler returns: after an error of a read, or for reasons of its own.  The goroutine of a handler closes the connection; a
\* handlerEx leaves that to what its onClose deletes.
HandlerReturns(c) ==
  /\ natConns[c].handler = "reading"
  /\ natConns[c].done \/ faults < MaxFaults
  /\ faults' = IF natConns[c].done THEN faults ELSE faults + 1
  /\ natConns' = [(IF ex THEN natConns ELSE closeConn(natConns, c)) EXCEPT ![c].handler = "delete"]
  /\ UNCHANGED <<nat, time, natCtxDone, ex, sender, sends>>

\* s.nat.Delete(key): of the key, whichever connection has it by now.
HandlerDeletes(c) ==
  /\ natConns[c].handler = "delete"
  /\ DeleteSource([natConns EXCEPT ![c].handler = "ended"], natConns[c].key)
  /\ UNCHANGED <<time, natCtxDone, ex, sender, sends, faults>>

\* The callers' context, which is the parent of every connection's.
Cancel ==
  /\ ~natCtxDone /\ natCtxDone' = TRUE /\ faults < MaxFaults /\ faults' = faults + 1
  /\ natConns' = [c \in DOMAIN natConns |-> [natConns[c] EXCEPT !.done = TRUE]]
  /\ UNCHANGED <<nat, time, ex, sender, sends>>

NatTick ==
  /\ faults < MaxFaults /\ faults' = faults + 1 /\ time' = time + 1
  /\ UNCHANGED <<nat, natCtxDone, ex, natConns, sender, sends>>

SenderStep(s) == InitConn(s) \/ CheckDone(s) \/ Retry(s) \/ Enqueue(s)
HandlerStep(c) == HandlerRead(c) \/ HandlerReturns(c) \/ HandlerDeletes(c)

NatNext ==
  \/ \E s \in Senders : NewPacket(s) \/ SenderStep(s)
  \/ \E c \in DOMAIN natConns : HandlerStep(c)
  \/ Cancel \/ NatTick

\* Goroutines run, and a handler goes on reading while it runs: what is
\* required of it is that it does not leave a queue full for ever.
NatFairness ==
  /\ \A s \in Senders : WF_natVars(SenderStep(s))
  /\ \A c \in 1 .. MaxNatConns : WF_natVars(c \in DOMAIN natConns /\ HandlerRead(c))
NatSpec == NatInit /\ [][NatNext]_natVars /\ NatFairness

-----------------------------------------------------------------------------
InTable(c) == \E i \in 1 .. Len(nat) : nat[i].value = c /\ nat[i].key = natConns[c].key

\* A connection that is open is in the table under its key, so that it ages
\* and at most one is open for a source; a packet reaches at most one handler
\* and one of its source's, in the order its sender sent them; and the writer
\* of a connection whose handler has ended is closed, except the one that a
\* handlerEx was given for a connection that was evicted before init.
NatTableInv ==
  /\ \A c \in DOMAIN natConns : ~natConns[c].done => InTable(c)
  /\ \A c, d \in DOMAIN natConns :
       \A i \in DOMAIN natConns[c].got : \A j \in DOMAIN natConns[d].got :
         /\ natConns[c].got[i].key = natConns[c].key
         /\ natConns[c].got[i].packet = natConns[d].got[j].packet => c = d /\ i = j
         /\ c = d /\ i < j /\ natConns[c].got[i].from = natConns[c].got[j].from
              => natConns[c].got[i].packet < natConns[c].got[j].packet
  /\ \A c \in DOMAIN natConns :
       natConns[c].handler = "ended" => natConns[c].sourceClosed \/ (ex /\ natConns[c].late)

\* A send ends, unless the handler of its connection has stopped reading.
\* Two senders of one source can delete each other's connection, and so
\* start again, without end: here until MaxNatConns.  A context that is done
\* ends that too.
SendsEnd ==
  \A s \in Senders :
    (sender[s].at # "idle") ~>
      \/ sender[s].at = "idle"
      \/ sender[s].at = "send" /\ natConns[sender[s].conn].handler \in {"delete", "ended"}
      \/ Len(natConns) = MaxNatConns /\ ~natCtxDone

\* A connection is closed by its own handler, by age, with the callers'
\* context, or because its key is deleted for another connection that
\* was closed before: nobody deletes the key of a source that had one
\* connection only.
ClosedForAReason ==
  [][\A c \in DOMAIN natConns :
       ~natConns[c].done /\ natConns'[c].done =>
         \/ natConns'[c].handler = "delete" \/ natConns[c].handler = "delete"
         \/ natCtxDone'
         \/ \E i \in DOMAIN nat : nat[i].value = c /\ Expired(NatOptions, nat[i], time)
         \/ \E d \in 1 .. c - 1 : natConns[d].key = natConns[c].key /\ natConns[d].done]_natVars
=============================================================================
