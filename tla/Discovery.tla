----------------------------- MODULE Discovery -----------------------------
(* discover (src/src/discovery.rs): mDNS events until a deadline, gathered    *)
(* into devices by their stable id.                                           *)
(*                                                                            *)
(* The mDNS daemon is external: services are resolved, resolved again with    *)
(* other addresses, another port or under another instance name, and removed, *)
(* in any order.  A name and a model are carried along and left out.          *)
EXTENDS Sequences, FiniteSetsExt, Timeouts

CONSTANTS
  Services,    \* what may be resolved: [id, instance, port, addresses]
  discovery_timeout,   \* not zero: discover then returns at once
  MaxEvents    \* bound: events before the deadline

ASSUME DiscoveryAssumption ==
  /\ MaxEvents \in Nat /\ discovery_timeout \in Nat \ {0}
  /\ \A service \in Services :
       /\ IsFiniteSet(service.addresses)
       /\ \A a \in service.addresses : a.family \in {"V4", "Global", "LinkLocal"} /\ IsFiniteSet(a.interfaces)

VARIABLES
  discovery,   \* "Browsing", "Failed" or "Found"
  devices,     \* by stable id: [instance, endpoints]
  announced    \* not in the code: the services resolved and instances removed

discovery_vars == <<discovery, devices, announced>>

\* discover has been called.
DiscoveryInit ==
  /\ discovery = "Browsing" /\ devices = << >> /\ announced = << >>
  /\ remaining = discovery_timeout /\ elapsed = 0
-----------------------------------------------------------------------------
\* append_endpoints.  An address is [family, ip, interfaces, unicast], with the
\* family "LinkLocal" for IPv6 in fe80::/10, and interface 0 for none.
append_endpoints(address, port) ==
  LET over(interface) == [family |-> address.family, ip |-> address.ip, port |-> port, interface |-> interface]
      scope == CHOOSE i \in address.interfaces : TRUE
  IN  CASE ~address.unicast -> {}
        [] address.unicast /\ address.family = "V4" ->
             {over(i) : i \in IF address.interfaces = {} THEN {0} ELSE address.interfaces}
        [] OTHER -> IF address.family = "LinkLocal" /\ scope = 0 THEN {} ELSE {over(scope)}

endpoint_priority(endpoint) ==
  CASE endpoint.family = "V4" -> 0 [] endpoint.family = "Global" -> 1 [] endpoint.family = "LinkLocal" -> 2

\* The order of the sort.  It does not look at the port.
precedes(e, f) ==
  \/ endpoint_priority(e) < endpoint_priority(f)
  \/ endpoint_priority(e) = endpoint_priority(f) /\ e.ip < f.ip
  \/ endpoint_priority(e) = endpoint_priority(f) /\ e.ip = f.ip /\ e.interface < f.interface

\* sort_by keeps the order of what it finds equal: an endpoint goes behind those it
\* does not precede.
insert(s, e) ==
  LET before == Cardinality({i \in DOMAIN s : ~precedes(e, s[i])})
  IN  SubSeq(s, 1, before) \o <<e>> \o SubSeq(s, before + 1, Len(s))

sort_by(endpoints) ==
  LET sorted[n \in 0 .. Len(endpoints)] == IF n = 0 THEN << >> ELSE insert(sorted[n - 1], endpoints[n])
  IN  sorted[Len(endpoints)]

\* dedup drops repeated neighbours.
dedup(s) ==
  LET kept[n \in 0 .. Len(s)] ==
        IF n = 0 THEN << >>
        ELSE IF n > 1 /\ s[n] = s[n - 1] THEN kept[n - 1]
        ELSE Append(kept[n - 1], s[n])
  IN  kept[Len(s)]

sort_and_deduplicate_endpoints(endpoints) == dedup(sort_by(endpoints))

\* device_from_service: the device, or none.
usable_endpoints(service) == UNION {append_endpoints(a, service.port) : a \in service.addresses}
usable(service) == service.id # 0 /\ service.port # 0 /\ usable_endpoints(service) # {}

\* The addresses are a set; the sort leaves nothing of the order they come in.
device_from_service(service) ==
  LET endpoints == usable_endpoints(service)
  IN  [instance |-> service.instance,
       endpoints |-> sort_and_deduplicate_endpoints(
                       CHOOSE s \in [1 .. Cardinality(endpoints) -> endpoints] : Range(s) = endpoints)]

\* A bug: the device stays under the name it was first seen with.
merge_device_keeping_instance(current, update) ==
  [current EXCEPT !.endpoints = sort_and_deduplicate_endpoints(@ \o update.endpoints)]

\* A bug: routes are added in the order they come.
merge_device_unsorted(current, update) ==
  [update EXCEPT !.endpoints = current.endpoints \o @]

merge_device(current, update) ==
  [update EXCEPT !.endpoints = sort_and_deduplicate_endpoints(current.endpoints \o @)]
-----------------------------------------------------------------------------
\* A bug: the timeout is over the wait for one event.
Announce_rearming(event) ==
  /\ discovery = "Browsing" /\ Len(announced) < MaxEvents
  /\ announced' = Append(announced, event)
  /\ UNCHANGED discovery
  /\ timeout(discovery_timeout)

\* An event is received, the last one when the time is up.
Announce(event) ==
  /\ discovery = "Browsing" /\ Len(announced) < MaxEvents
  /\ announced' = Append(announced, event)
  /\ discovery' = IF remaining = 0 THEN "Found" ELSE "Browsing"
  /\ UNCHANGED clock

Resolved(service) == [removed |-> FALSE, service |-> service, instance |-> service.instance]

ServiceResolved(service) ==
  /\ Announce(Resolved(service))
  /\ devices' = IF ~usable(service) THEN devices
                ELSE [id \in DOMAIN devices \cup {service.id} |->
                        IF id # service.id THEN devices[id]
                        ELSE IF id \in DOMAIN devices THEN merge_device(devices[id], device_from_service(service))
                        ELSE device_from_service(service)]

ServiceRemoved(instance) ==
  /\ Announce([removed |-> TRUE, instance |-> instance])
  /\ devices' = Restrict(devices, {d \in DOMAIN devices : devices[d].instance # instance})

\* The time is up, or the channel of the daemon has an error.
Deadline ==
  /\ discovery = "Browsing" /\ remaining = 0
  /\ discovery' = "Found"
  /\ UNCHANGED <<devices, announced, clock>>

ReceiveFails ==
  /\ discovery = "Browsing"
  /\ discovery' = "Failed"
  /\ UNCHANGED <<devices, announced, clock>>

DiscoveryNext ==
  \/ \E service \in Services : ServiceResolved(service) \/ ServiceRemoved(service.instance)
  \/ Deadline
  \/ ReceiveFails
-----------------------------------------------------------------------------
\* The places in `announced` where a usable service of a device was resolved.
ResolvedAt(id) ==
  {k \in DOMAIN announced :
     ~announced[k].removed /\ usable(announced[k].service) /\ announced[k].service.id = id}

\* Nothing between the announcements j and k took the device away: an instance
\* removed in between was not, when it was removed, the one the device was last
\* resolved under.
Held(id, j, k) ==
  \A r \in j .. k : announced[r].removed =>
    announced[r].instance # announced[Max({i \in ResolvedAt(id) : i < r})].instance

\* A device is listed exactly while the instance it was last resolved under has
\* not been removed, whatever other instances and devices come and go, and under
\* that instance.
DevicesAreLive ==
  \A id \in {service.id : service \in Services} :
    /\ id \in DOMAIN devices <=> \E k \in ResolvedAt(id) : Held(id, k, Len(announced))
    /\ id \in DOMAIN devices => devices[id].instance = announced[Max(ResolvedAt(id))].instance

\* "Every usable address is retained": a device is listed with each route of its
\* current resolutions, those of which no later announcement of the same instance
\* says otherwise, and with no route but those resolved since it was listed.  The
\* first is the best of them: "IPv4, then global IPv6, then scoped link-local
\* IPv6".  A route that a later resolution of its instance no longer has stays
\* listed, and so does one whose instance was removed when it was not the one the
\* device was last resolved under: merge_device only adds.
RoutesAreKept ==
  \A id \in DOMAIN devices :
    LET since     == {k \in ResolvedAt(id) : Held(id, k, Len(announced))}
        current   == {k \in since : \A r \in k + 1 .. Len(announced) : announced[r].instance # announced[k].instance}
        routes(K) == UNION {usable_endpoints(announced[k].service) : k \in K}
        kept      == devices[id].endpoints
    IN  /\ routes(current) \subseteq Range(kept) /\ Range(kept) \subseteq routes(since)
        /\ kept # << >>
        /\ \A i \in DOMAIN kept : endpoint_priority(kept[1]) <= endpoint_priority(kept[i])
=============================================================================
