--------------------------- MODULE ReceiverLookup ---------------------------
(* An application that finds a receiver, connects to it and asks its setup    *)
(* port for more: Discovery, then ReceiverAuth with one of the routes found,  *)
(* then SetupQuery, which asks for a connection that has been authenticated   *)
(* (get_setup_device_info, src/src/control/mod.rs).  What one call leaves     *)
(* behind and the next does not read is reset.                                *)
EXTENDS Discovery, ReceiverAuth, SetupQuery

VARIABLE selected   \* the route the application has chosen, once it has: [family, ip, port, interface]

lookup_vars == <<discovery_vars, link_vars, query_vars, selected, clock>>

LookupInit == DiscoveryInit /\ LinkInit /\ QueryInit /\ selected = << >>

\* The application takes a route of a device it was given.
Select(endpoint) ==
  /\ discovery = "Found" /\ selected = << >>
  /\ selected' = <<endpoint>>
  /\ discovery' = "Done" /\ devices' = << >> /\ announced' = << >>
  /\ UNCHANGED <<link_vars, query_vars, clock>>

\* get_setup_device_info on an authenticated connection, which stays open and is
\* not looked at any more.
get_setup_device_info ==
  /\ link = "Open" /\ identity # << >>
  /\ query_device_info
  /\ link' = "Kept" /\ connects' = 0 /\ peer' = << >> /\ identity' = << >> /\ proof' = << >>
  /\ selected' = << >>
  /\ UNCHANGED discovery_vars

\* The connection is dropped by the application.
Disconnect ==
  /\ link = "Open"
  /\ Dropped
  /\ UNCHANGED <<connects, discovery_vars, query_vars, selected, clock>>

\* Time passes while a call waits.
Tick ==
  /\ discovery = "Browsing" \/ link \in Range(Steps) \/ query \in {"Connecting", "Reading"}
  /\ Passes
  /\ UNCHANGED <<discovery_vars, link_vars, query_vars, selected>>

Discover(A) == A /\ UNCHANGED <<link_vars, query_vars, selected>>
Link(A) == selected # << >> /\ A /\ UNCHANGED <<discovery_vars, query_vars, selected>>
Setup(A) == A /\ UNCHANGED <<discovery_vars, link_vars, selected>>

LookupNext ==
  \/ Discover(DiscoveryNext)
  \/ \E id \in DOMAIN devices : \E i \in DOMAIN devices[id].endpoints : Select(devices[id].endpoints[i])
  \/ Link(LinkNext)
  \/ Disconnect
  \/ get_setup_device_info
  \/ Setup(QueryNext)
  \/ Tick

LookupSpec == LookupInit /\ [][LookupNext]_lookup_vars

-----------------------------------------------------------------------------
\* Every call of the lookup takes the time it should, whatever the network does:
\* discover its timeout, however many announcements come and not less with few of
\* them; connect one REQUEST_TIMEOUT for each of its five steps at most; and
\* get_setup_device_info one in all, however slowly the response comes.
LookupIsTimely ==
  /\ discovery = "Browsing" => elapsed <= discovery_timeout
  /\ discovery = "Found" => elapsed = discovery_timeout
  /\ link \in Range(Steps) \cup {"Open"} => elapsed <= Len(Steps) * REQUEST_TIMEOUT
  /\ query # "None" => elapsed <= SETUP_TIMEOUT
=============================================================================
