-------------------------------- MODULE Ports --------------------------------
(***************************************************************************)
(* The control plane.  DPDK's vhost thread calls the device callbacks of   *)
(* VhostController, which record devices and queues in ConfigManager and   *)
(* write a PORT_UP or PORT_DOWN notification to the abstract socket; the   *)
(* epoll worker of PortControllerLoopback reads them one by one, and       *)
(* creates, starts, shuts down and removes port handlers.                  *)
(*                                                                         *)
(* A callback is one step, and so is process_notification: each runs on    *)
(* its own thread and they share nothing but the socket and pmap_ (read by *)
(* the start of a handler).  The threads of a started handler and its      *)
(* shutdown are the business of PortHandlerLoopback, which shows that a    *)
(* shutdown need not return: then the epoll worker is hung.                *)
(***************************************************************************)
EXTENDS ConfigManager, FiniteSets, Sequences

CONSTANTS NofVids,       \* bound: vids the vhost library hands out, 0..NofVids-1
          VringCounts,   \* what rte_vhost_get_vring_num may answer
          ChanCap,       \* bound: notifications the socket buffers; a write waits
          Order          \* which vid a new device may have, see VidFor

Orders == {"dense", "lowest", "any"}

ASSUME PortsAssumption ==
          /\ NofVids \in Nat
          /\ VringCounts \subseteq Nat
          /\ ChanCap \in Nat \ {0}
          /\ Order \in Orders

Vids == 0..(NofVids - 1)
Queues == UNION {0..(n - 1) : n \in VringCounts}

VARIABLES
   live,           \* vids between their new_device and destroy_device callbacks
   port_cntr,      \* VhostController::port_cntr_
   pmap, pvmap, vpmap,
   chan,           \* the abstract socket: PortDeviceRingState, oldest first, the
                   \* one being processed included
   connected,      \* the epoll worker has accepted the VhostController
   port_handler,   \* PortController::port_handler_, by <<pid, vid>>
   names,          \* names of the mempools and rings that exist in DPDK
   hung,           \* the epoll worker waits for ever for a handler's thread
   revived,        \* history: vids without a device whose old record a vring
                   \* change has made ready again
   stale           \* history: the servers whose device has gone since, by
                   \* handler and start

configVars == <<pmap, pvmap, vpmap>>
handlerVars == <<port_handler, names>>
vars == <<live, port_cntr, pmap, pvmap, vpmap, chan, connected, port_handler, names,
          hung, revived, stale>>

Message(meta, pid, vid) == [meta |-> meta, pid |-> pid, vid |-> vid]

\* notify_port_controller: one write to the socket.
Notify(meta, pid, vid) == chan' = Append(chan, Message(meta, pid, vid))

CanNotify == Len(chan) < ChanCap

-----------------------------------------------------------------------------
\* The port id and queue id of a resource name, one digit after the other, as
\* std::to_string writes them.
Digits(n) == IF n < 10 THEN <<n>>
             ELSE IF n < 100 THEN <<n \div 10, n % 10>>
             ELSE <<n \div 100, (n \div 10) % 10, n % 10>>
Name(pid, qid) == Digits(pid) \o Digits(qid)

NullPtr == << >>     \* what rte_ring_create returns for a name that is in use

\* A handler: the devices its threads serve (one entry per start) and, by odd
\* queue, its mempool and ring.
NewHandler == [serves |-> << >>, pools |-> EmptyMap]

\* The names that a handler's shutdown frees.
NamesOf(h) == {h.pools[q] : q \in DOMAIN h.pools} \ {NullPtr}

\* get_port_handler_by_vid: of the handlers kept for vid v, the one under the
\* lowest port id; the call throws when there is none.
KeysWithVid(handlers, v) == {k \in DOMAIN handlers : k[2] = v}
HandlerByVid(handlers, v) ==
   CHOOSE k \in KeysWithVid(handlers, v) : \A j \in KeysWithVid(handlers, v) : k[1] <= j[1]

\* start: create_resources for the odd queues of the device, then dispatch.
Started(h, taken, pid, vid) ==
   LET n == PairsOf(pmap, vid)
       odd == {2 * i - 1 : i \in 1..n}
       create(q) == IF Name(pid, q) \in taken THEN NullPtr ELSE Name(pid, q)
   IN  [serves |-> Append(h.serves, [vid |-> vid, pairs |-> n]),
        pools |-> [q \in DOMAIN h.pools \cup odd |->
                      IF q \in odd THEN create(q) ELSE h.pools[q]]]

\* Who serves vid v: a handler and one of its starts.
ServersOf(v) == UNION {{<<k, i>> : i \in {j \in 1..Len(port_handler[k].serves) :
                                             port_handler[k].serves[j].vid = v}}
                         : k \in DOMAIN port_handler}

Init == /\ live = {} /\ port_cntr = 0
        /\ pmap = EmptyMap /\ pvmap = EmptyMap /\ vpmap = EmptyMap
        /\ chan = << >> /\ connected = FALSE
        /\ port_handler = EmptyMap /\ names = {} /\ hung = FALSE
        /\ revived = {} /\ stale = {}

-----------------------------------------------------------------------------
\* The vhost library gives a new connection the lowest free vid, but a device
\* appears when its driver is ready.  "dense": vids appear in order, and after
\* an unplug none appears until the remaining ones are 0..k (or none); "lowest":
\* in order, also into the gap an unplug left; "any": in any order.
VidFor(v) == /\ v \in Vids \ live
             /\ Order = "dense" => live = 0..(v - 1)
             /\ Order = "lowest" => 0..(v - 1) \subseteq live

\* Mutant of NewDevice: the notification is written after the count.
NewDeviceCountsFirst(v, vring_count) ==
   /\ VidFor(v)
   /\ pmap' = SetQueueState(SetQueueState(
                 InitVhostDevice(pmap, v, vring_count \div 2), v, 0, TRUE), v, 1, TRUE)
   /\ pvmap' = Insert(pvmap, port_cntr, v)
   /\ vpmap' = Insert(vpmap, v, port_cntr)
   /\ port_cntr' = port_cntr + 1
   /\ IF vring_count = 2 THEN CanNotify /\ Notify("PORT_UP", port_cntr', v)
                         ELSE UNCHANGED chan
   /\ live' = live \cup {v} /\ revived' = revived \ {v}
   /\ UNCHANGED <<connected, handlerVars, hung, stale>>

\* on_new_device, for a device with vring_count vrings.
NewDevice(v, vring_count) ==
   /\ VidFor(v)
   /\ pmap' = SetQueueState(SetQueueState(
                 InitVhostDevice(pmap, v, vring_count \div 2), v, 0, TRUE), v, 1, TRUE)
   /\ pvmap' = Insert(pvmap, port_cntr, v)
   /\ vpmap' = Insert(vpmap, v, port_cntr)
   /\ IF vring_count = 2 THEN CanNotify /\ Notify("PORT_UP", port_cntr, v)
                         ELSE UNCHANGED chan
   /\ port_cntr' = port_cntr + 1
   /\ live' = live \cup {v} /\ revived' = revived \ {v}
   /\ UNCHANGED <<connected, handlerVars, hung, stale>>

\* Mutant of DestroyDevice: of a device that is not ready nobody is told.
DestroyDeviceReady(v) ==
   /\ v \in live /\ CanNotify
   /\ IF IsPortReady(pmap, v) THEN Notify("PORT_DOWN", PidOf(vpmap, v), v) ELSE UNCHANGED chan
   /\ port_cntr' = port_cntr - 1
   /\ live' = live \ {v} /\ stale' = stale \cup ServersOf(v)
   /\ UNCHANGED <<configVars, connected, handlerVars, hung, revived>>

\* on_destroy_device: the device stays in the maps, and its handler goes on for now.
DestroyDevice(v) ==
   /\ v \in live /\ CanNotify
   /\ Notify("PORT_DOWN", PidOf(vpmap, v), v)
   /\ port_cntr' = port_cntr - 1
   /\ live' = live \ {v} /\ stale' = stale \cup ServersOf(v)
   /\ UNCHANGED <<configVars, connected, handlerVars, hung, revived>>

\* Mutant of VringStateChanged: is_port_ready is asked before the update.
VringStateChangedLate(v, queue_id, enable) ==
   /\ pmap' = SetQueueState(pmap, v, queue_id, enable)
   /\ IF IsPortReady(pmap, v) THEN CanNotify /\ Notify("PORT_UP", PidOf(vpmap, v), v)
                              ELSE UNCHANGED chan
   /\ revived' = IF v \notin live /\ IsPortReady(pmap', v) THEN revived \cup {v} ELSE revived
   /\ UNCHANGED <<live, port_cntr, pvmap, vpmap, connected, handlerVars, hung, stale>>

\* on_vring_state_changed.  The library also reports the vrings of a device that
\* is being set up (its vid may be new here, or have been in use before) and of
\* one that it has just destroyed; clear_device is commented out, so that the
\* record of the last device with this vid is what changes then.
VringStateChanged(v, queue_id, enable) ==
   /\ pmap' = SetQueueState(pmap, v, queue_id, enable)
   /\ IF IsPortReady(pmap', v) THEN CanNotify /\ Notify("PORT_UP", PidOf(vpmap, v), v)
                               ELSE UNCHANGED chan
   /\ revived' = IF v \notin live /\ IsPortReady(pmap', v) THEN revived \cup {v} ELSE revived
   /\ UNCHANGED <<live, port_cntr, pvmap, vpmap, connected, handlerVars, hung, stale>>

\* The callbacks of rte_vhost_device_ops, each passed on to the one instance.
VhostThread == \/ \E v \in Vids, n \in VringCounts : NewDevice(v, n)
               \/ \E v \in Vids : DestroyDevice(v)
               \/ \E v \in Vids, q \in Queues, e \in BOOLEAN : VringStateChanged(v, q, e)

-----------------------------------------------------------------------------
\* epoll_worker accepts the connection that VhostController made.
Accept == /\ ~connected
          /\ connected' = TRUE
          /\ UNCHANGED <<live, port_cntr, configVars, chan, handlerVars, hung, revived, stale>>

\* The epoll worker reads a notification and processes it to the end.
Processes(meta) == /\ connected /\ ~hung /\ chan # << >> /\ Head(chan).meta = meta
                   /\ chan' = Tail(chan)
                   /\ UNCHANGED <<live, port_cntr, configVars, connected, hung, revived>>

\* The handlers that processing the oldest notification shuts down: for a PORT_UP the
\* one that is replaced, whose destructor does it; for a PORT_DOWN the one found under
\* the vid, and the one that is removed.
ShutDown ==
   LET m == Head(chan)
       key == {<<m.pid, m.vid>>} \cap DOMAIN port_handler
   IN  CASE m.meta = "PORT_UP" -> key
         [] m.meta = "PORT_DOWN" /\ KeysWithVid(port_handler, m.vid) = {} -> {}
         [] m.meta = "PORT_DOWN" /\ KeysWithVid(port_handler, m.vid) # {} ->
               {HandlerByVid(port_handler, m.vid)} \cup key

\* The mempools and rings left, and the servers still stale, after that.
NamesKept == names \ UNION {NamesOf(port_handler[k]) : k \in ShutDown}
StaleKept == {s \in stale : s[1] \notin ShutDown}

\* Mutant of ProcessUp: a handler that is there is not replaced (emplace).
ProcessUpKeeps ==
   /\ Processes("PORT_UP")
   /\ LET pid == Head(chan).pid
          vid == Head(chan).vid
          key == <<pid, vid>>
          added == IF key \in DOMAIN port_handler THEN port_handler
                   ELSE Insert(port_handler, key, NewHandler)
          found == HandlerByVid(added, pid)
          started == Started(added[found], names, pid, vid)
      IN  IF KeysWithVid(added, pid) = {}
          THEN port_handler' = added /\ UNCHANGED names
          ELSE /\ port_handler' = [added EXCEPT ![found] = started]
               /\ names' = names \cup NamesOf(started)
   /\ UNCHANGED stale

\* process_notification of PORT_UP: a handler is added in the place of the one
\* that may be there; then the handler found under the vid that equals the port id
\* is started.
ProcessUp ==
   /\ Processes("PORT_UP")
   /\ LET pid == Head(chan).pid
          vid == Head(chan).vid
          added == Insert(port_handler, <<pid, vid>>, NewHandler)
          found == HandlerByVid(added, pid)
          started == Started(added[found], NamesKept, pid, vid)
      IN  IF KeysWithVid(added, pid) = {}
          THEN port_handler' = added /\ names' = NamesKept
          ELSE /\ port_handler' = [added EXCEPT ![found] = started]
               /\ names' = NamesKept \cup NamesOf(started)
   /\ stale' = StaleKept

\* Mutant of ProcessDown: the handler is removed without being shut down.
ProcessDownLeaks ==
   /\ Processes("PORT_DOWN")
   /\ port_handler' = Erase(port_handler, <<Head(chan).pid, Head(chan).vid>>)
   /\ stale' = StaleKept
   /\ UNCHANGED names

\* process_notification of PORT_DOWN: the handler found under the vid is shut
\* down, the one under the port id and vid is removed.
ProcessDown ==
   /\ Processes("PORT_DOWN")
   /\ LET vid == Head(chan).vid
          found == HandlerByVid(port_handler, vid)
      IN  IF KeysWithVid(port_handler, vid) = {}
          THEN UNCHANGED port_handler
          ELSE port_handler' = Erase([port_handler EXCEPT ![found] = NewHandler],
                                     <<Head(chan).pid, vid>>)
   /\ names' = NamesKept /\ stale' = StaleKept

Process == ProcessUp \/ ProcessDown

\* A shutdown waits for ever for a thread that began after it was told to stop
\* (PortHandlerLoopback): the notification is never done with.
ProcessHangs ==
   /\ connected /\ ~hung /\ chan # << >>
   /\ \E k \in ShutDown : \E i \in 1..Len(port_handler[k].serves) :
         port_handler[k].serves[i].pairs > 0
   /\ hung' = TRUE
   /\ UNCHANGED <<live, port_cntr, configVars, chan, connected, handlerVars, revived, stale>>

EpollWorker == Accept \/ Process \/ ProcessHangs

Next == VhostThread \/ EpollWorker

Spec == Init /\ [][Next]_vars

\* The epoll worker keeps reading, unless it hangs; devices come and go as they like.
FairSpec == Spec /\ WF_vars(EpollWorker)

-----------------------------------------------------------------------------
\* What pmap_ may record: the enabled queues are queues of the device.
RecordsOK(records) ==
   \A v \in DOMAIN records : /\ records[v] \in [pairs : Nat, enabled : SUBSET Nat]
                            /\ records[v].enabled \subseteq 0..(2 * records[v].pairs - 1)

TypeOK ==
   /\ live \subseteq Vids
   /\ port_cntr \in Int
   /\ DOMAIN pmap \subseteq Vids
   /\ RecordsOK(pmap)
   /\ vpmap \in [DOMAIN pmap -> Int]
   /\ \A p \in DOMAIN pvmap : pvmap[p] \in Vids
   /\ chan \in Seq([meta : {"PORT_UP", "PORT_DOWN"}, pid : Int, vid : Vids])
   /\ Len(chan) <= ChanCap
   /\ connected \in BOOLEAN /\ hung \in BOOLEAN /\ revived \subseteq Vids
   /\ DOMAIN port_handler \subseteq Int \X Vids

\* port_cntr_ counts the devices that are there, whatever their vids.
CounterMatchesDevices == port_cntr = Cardinality(live)

\* No handler is waiting in the socket to be started or stopped for vid v.
Settled(v) == \A i \in 1..Len(chan) : chan[i].vid # v

\* The handler of port pid and device v serves all its queues, and nothing else,
\* with a mempool and a ring for each transmit queue.
Serves(pid, v) ==
   /\ <<pid, v>> \in DOMAIN port_handler
   /\ LET h == port_handler[<<pid, v>>]
      IN  /\ h.serves = <<[vid |-> v, pairs |-> PairsOf(pmap, v)]>>
          /\ DOMAIN h.pools = {2 * i - 1 : i \in 1..PairsOf(pmap, v)}
          /\ \A q \in DOMAIN h.pools : h.pools[q] # NullPtr

\* The handlers agree with vid v: a device that is there and ready is served, by
\* the handler of its port; one that is gone has no handler, unless its old record
\* has become ready again after it went.
Agree(v) ==
   /\ v \in live /\ IsPortReady(pmap, v) => Serves(PidOf(vpmap, v), v)
   /\ v \notin live \cup revived => KeysWithVid(port_handler, v) = {} /\ ServersOf(v) = {}

\* When the socket holds no more notification about a device, the handlers agree
\* with it.
HandlersMatchDevices == \A v \in Vids : Settled(v) => Agree(v)

\* The threads of a device that has gone poll its vid, which the library may already
\* have given to another guest, only until the epoll worker comes to the PORT_DOWN
\* that ends them: that is in the socket as long as they are there.
StaleServersEnd ==
   \A s \in stale : \E i \in 1..Len(chan) :
      /\ chan[i].meta = "PORT_DOWN"
      /\ chan[i].vid = port_handler[s[1]].serves[s[2]].vid

\* No two starts serve the same device: the vhost queues, and the rings between
\* them, have one producer and one consumer.
OneServer == \A v \in Vids : Cardinality(ServersOf(v)) <= 1

\* DPDK holds the mempools and rings of the handlers that are there, none twice
\* and none that nobody can free any more.
ResourcesOwned ==
   /\ names = UNION {NamesOf(port_handler[k]) : k \in DOMAIN port_handler}
   /\ \A k, l \in DOMAIN port_handler :
         k # l => NamesOf(port_handler[k]) \cap NamesOf(port_handler[l]) = {}

\* A PORT_UP starts the handler of the port and device it names ("dispatch port
\* handler threads"; the error is for a "device_id" that was not found).
UpStartsItsHandler ==
   [][ProcessUp => LET m == Head(chan)
                   IN  /\ <<m.pid, m.vid>> \in DOMAIN port_handler'
                       /\ \E i \in 1..Len(port_handler'[<<m.pid, m.vid>>].serves) :
                             port_handler'[<<m.pid, m.vid>>].serves[i].vid = m.vid]_vars

\* When a device comes and goes no more and is ready for good, or not, the handlers
\* agree with it in the end and for good, whatever the other devices do; unless the
\* epoll worker hangs in a shutdown.
EventuallyServed ==
   \A v \in Vids :
      <>[][UNCHANGED <<v \in live, IsPortReady(pmap, v)>>]_vars => <>[]Agree(v) \/ <>hung
=============================================================================
