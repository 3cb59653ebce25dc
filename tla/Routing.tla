------------------------------- MODULE Routing -------------------------------
(***************************************************************************)
(* Routes and their change when a link fails.  The experiment driver       *)
(* computes all shortest paths to every host (CalculateRoutes), puts them  *)
(* into the tables of the nodes (SetRoutingEntries), and does both again   *)
(* when it takes a link down (TakeDownLink), while packets that were sent  *)
(* by the old tables are on their way.                                     *)
(*                                                                         *)
(* Which of several next hops a node takes depends on a hash of the flow:  *)
(* any of them here.  Interfaces are named by the neighbours they lead to, *)
(* and a packet is in the queue of an interface or on the wire behind it.  *)
(***************************************************************************)
EXTENDS Integers, Sequences, FiniteSets, FiniteSetsExt, SequencesExt

CONSTANTS
  Hosts,
  Switches,
  Links,       \* sets of two nodes
  Packets,
  MaxFailures  \* bound: links taken down

Nodes == Hosts \cup Switches

ASSUME TopologyAssumption ==
  /\ IsFiniteSet(Nodes) /\ Hosts \cap Switches = {}
  /\ \A l \in Links : l \subseteq Nodes /\ Cardinality(l) = 2

VARIABLES
  up,       \* the links that are up: nbr2if[a][b].up and m_linkUp of both devices
  nextHop,  \* nextHop[node][host], in the driver
  m_rtTable,  \* m_rtTable[node][host], in each node
  packet    \* where each packet is

vars == <<up, nextHop, m_rtTable, packet>>

Nowhere == [state |-> "new"]
Delivered == [state |-> "delivered"]
Dropped == [state |-> "dropped"]
Between(from, to, dst) == [state |-> "sent", from |-> from, to |-> to, dst |-> dst]

OnItsWay(p) == packet[p].state = "sent"

Empty == [n \in Nodes |-> [h \in Hosts |-> {}]]
Neighbours(links, n) == {m \in Nodes : {n, m} \in links}

-----------------------------------------------------------------------------

\* Mutant of Enqueued: hosts are enqueued as well.
EnqueuedAll(nodes) == nodes

\* Packets should not go through a host as a middle point.
Enqueued(nodes) == nodes \cap Switches

\* One round of the search: the node now, taken from the queue of the search.
Visit(links, search, now) ==
  LET d == search.dis[now]
      nbrs == Neighbours(links, now)
      new == nbrs \ DOMAIN search.dis
      dis == [n \in DOMAIN search.dis \cup new |->
                IF n \in new THEN d + 1 ELSE search.dis[n]]
  IN  [q |-> search.q \o SetToSeq(Enqueued(new)),
       dis |-> dis,
       hops |-> [n \in Nodes |->
         IF n \in nbrs /\ dis[n] = d + 1
         THEN search.hops[n] \cup {now} ELSE search.hops[n]]]

\* CalculateRoute: a breadth-first search from the host.
CalculateRoute(links, host) ==
  LET start == [q |-> <<host>>, dis |-> [n \in {host} |-> 0],
                hops |-> [n \in Nodes |-> {}]]
      search[i \in 0..Cardinality(Nodes)] ==
        IF i = 0 THEN start
        ELSE LET before == search[i - 1]
             IN  IF i > Len(before.q) THEN before ELSE Visit(links, before, before.q[i])
  IN  search[Cardinality(Nodes)].hops

\* The next hops found are appended to what the map holds.
CalculateRoutes(before, links) ==
  LET found == [h \in Hosts |-> CalculateRoute(links, h)]
  IN  [n \in Nodes |-> [h \in Hosts |-> before[n][h] \cup found[h][n]]]

\* AddTableEntry of every node and host.
SetRoutingEntries(before, hops) ==
  [n \in Nodes |-> [h \in Hosts |-> before[n][h] \cup hops[n][h]]]

\* Mutant of Cleared: the old entries stay.
NotCleared(table) == table

\* nextHop.clear, ClearTable.
Cleared(table) == Empty

\* Mutant of Emptied: the queues of all devices of one end.
EmptiedNode(a, b) == {p \in Packets : OnItsWay(p) /\ packet[p].from \in {a, b}}

\* TakeDown of both devices empties their queues, and they receive nothing any more.
Emptied(a, b) == {p \in Packets : OnItsWay(p) /\ {packet[p].from, packet[p].to} = {a, b}}

TakeDownLink(a, b) ==
  /\ {a, b} \in up
  /\ Cardinality(Links \ up) < MaxFailures
  /\ up' = up \ {{a, b}}
  /\ nextHop' = CalculateRoutes(Cleared(nextHop), up')
  /\ m_rtTable' = SetRoutingEntries(Cleared(m_rtTable), nextHop')
  /\ packet' = [p \in Packets |-> IF p \in Emptied(a, b) THEN Dropped ELSE packet[p]]

-----------------------------------------------------------------------------

\* A host that has a route sends a packet.
Send(p, src, dst) ==
  /\ packet[p] = Nowhere
  /\ src # dst
  /\ \E m \in m_rtTable[src][dst] : packet' = [packet EXCEPT ![p] = Between(src, m, dst)]
  /\ UNCHANGED <<up, nextHop, m_rtTable>>

\* A switch forwards a packet (GetOutDev, SendToDev), or drops it for want of a route.
SendToDev(p) ==
  /\ OnItsWay(p) /\ packet[p].to \in Switches
  /\ LET here == packet[p].to
         dst == packet[p].dst
     IN  \/ \E m \in m_rtTable[here][dst] :
              packet' = [packet EXCEPT ![p] = Between(here, m, dst)]
         \/ /\ m_rtTable[here][dst] = {}
            /\ packet' = [packet EXCEPT ![p] = Dropped]
  /\ UNCHANGED <<up, nextHop, m_rtTable>>

Receive(p) ==
  /\ OnItsWay(p) /\ packet[p].to \in Hosts
  /\ packet' = [packet EXCEPT ![p] = Delivered]
  /\ UNCHANGED <<up, nextHop, m_rtTable>>

Init ==
  /\ up = Links
  /\ nextHop = CalculateRoutes(Empty, Links)
  /\ m_rtTable = SetRoutingEntries(Empty, nextHop)
  /\ packet = [p \in Packets |-> Nowhere]

Next ==
  \/ \E a, b \in Nodes : TakeDownLink(a, b)
  \/ \E p \in Packets : \/ \E src, dst \in Hosts : Send(p, src, dst)
                        \/ SendToDev(p)
                        \/ Receive(p)

Spec == Init /\ [][Next]_vars

\* Packets are transmitted and arrive.
FairSpec == Spec /\ \A p \in Packets : WF_vars(SendToDev(p) \/ Receive(p))

-----------------------------------------------------------------------------

\* Reference: the nodes from which a host can be reached in at most k hops over links
\* that are up, with switches in between.
Within(links, host) ==
  LET near[k \in Nat] ==
        IF k = 0 THEN {host}
        ELSE LET before == near[k - 1]
             IN  before \cup {n \in Nodes : \E m \in before \cap (Switches \cup {host}) :
                                              {n, m} \in links}
  IN  [k \in 0..Cardinality(Nodes) |-> near[k]]

Reachable(links, n, host) == n \in Within(links, host)[Cardinality(Nodes)]

\* The tables of all nodes hold exactly the first hops of the shortest paths, over links
\* that are up and never through a host, after every failure too.  This is what the
\* assertion in SendToDev, "The routing table look up should return link that is up",
\* rests on.
TablesShortest ==
  \A h \in Hosts :
    LET within == Within(up, h)
    IN  \A n \in Nodes \ {h} :
          m_rtTable[n][h] =
            {m \in Neighbours(up, n) \cap (Switches \cup {h}) :
               \E k \in DOMAIN within : m \in within[k] /\ n \notin within[k]}

\* A packet is lost only with the link it is on, or in a part of the fabric that the
\* failures have cut off from its destination.
LostOnlyIfCutOff ==
  [][\A p \in Packets : OnItsWay(p) /\ packet'[p] = Dropped =>
       \/ {packet[p].from, packet[p].to} \in up \ up'
       \/ ~Reachable(up, packet[p].to, packet[p].dst)]_vars

\* No packet circulates for ever, whenever tables change under it: it is delivered or
\* dropped.
PacketsEnd == \A p \in Packets : OnItsWay(p) ~> ~OnItsWay(p)
=============================================================================
