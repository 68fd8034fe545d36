---------------------------- MODULE ConfigManager ----------------------------
(***************************************************************************)
(* The configuration manager's record of the devices: pmap_ by vid, the    *)
(* "dual map" pvmap_ and vpmap_ between port ids and vids, and the methods *)
(* that read and update them, as operators on the maps.  A map is a        *)
(* function on the keys it holds.                                          *)
(***************************************************************************)
EXTENDS Integers

CONSTANT MaxQueuePairs            \* MAX_QUEUE_PAIRS, the length of VhostDevice::qp

ASSUME MaxQueuePairsAssumption == MaxQueuePairs \in Nat

EmptyMap == [k \in {} |-> 0]

\* m[k] = x of a std::map, for a key that is there or not.
Insert(m, k, x) == [j \in DOMAIN m \cup {k} |-> IF j = k THEN x ELSE m[j]]

Erase(m, k) == [j \in DOMAIN m \ {k} |-> m[j]]

\* Mutant of InitVhostDevice: a record that is there is kept (emplace).
InitVhostDeviceKeeps(pmap, vid, n) ==
   IF vid \in DOMAIN pmap THEN [pmap EXCEPT ![vid].pairs = n]
   ELSE Insert(pmap, vid, [pairs |-> n, enabled |-> {}])

\* pmap_ after init_vhost_device: n queue pairs with ids 2i (receive) and 2i+1
\* (transmit), none enabled, whatever was recorded for the vid before.
InitVhostDevice(pmap, vid, n) == Insert(pmap, vid, [pairs |-> n, enabled |-> {}])

\* Mutant of SetQueueState: the queue is not looked for.
SetQueueStateUnchecked(pmap, vid, queue_id, enable) ==
   IF vid \in DOMAIN pmap
   THEN [pmap EXCEPT ![vid].enabled = IF enable THEN @ \cup {queue_id} ELSE @ \ {queue_id}]
   ELSE pmap

\* pmap_ after set_queue_state: a vid that is not recorded and a queue that the
\* device does not have are passed over in silence.
SetQueueState(pmap, vid, queue_id, enable) ==
   IF vid \in DOMAIN pmap /\ queue_id < 2 * pmap[vid].pairs
   THEN [pmap EXCEPT ![vid].enabled = IF enable THEN @ \cup {queue_id} ELSE @ \ {queue_id}]
   ELSE pmap

\* is_port_ready: every queue of every pair is enabled.
IsPortReady(pmap, vid) ==
   /\ vid \in DOMAIN pmap
   /\ pmap[vid].pairs \in 1..MaxQueuePairs
   /\ 0..(2 * pmap[vid].pairs - 1) \subseteq pmap[vid].enabled

\* get_pid_by_vid and get_vid_by_pid.
PidOf(vpmap, vid) == IF vid \in DOMAIN vpmap THEN vpmap[vid] ELSE -1
VidOf(pvmap, pid) == IF pid \in DOMAIN pvmap THEN pvmap[pid] ELSE -1

\* How many pairs' queues PortHandler::get_queue_ids_by_vid lists.
PairsOf(pmap, vid) ==
   IF vid \notin DOMAIN pmap THEN 0
   ELSE IF pmap[vid].pairs > MaxQueuePairs THEN MaxQueuePairs ELSE pmap[vid].pairs
=============================================================================
