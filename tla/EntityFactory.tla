---------------------------- MODULE EntityFactory ----------------------------
(***************************************************************************)
(* EntityCfg, the factories of the four kinds and what an entity does with *)
(* its configuration (entity.h, factory.h, sensor.h, binary_sensor.h,      *)
(* button.h, cover.h): calls of a factory in any order, or a configuration *)
(* that the application builds itself, then the calls of the entity and    *)
(* the commands it dispatches, on a client whose sends succeed.  A member  *)
(* of the JSON object is absent, null, a string or an object; topics and   *)
(* payloads are the strings the application chooses among.                 *)
(***************************************************************************)
EXTENDS Naturals, EntitySetup

CONSTANTS
  Values,     \* Values[f]: the strings the application sets field f to
  Devices,    \* Device values: functions from members to strings, "" if empty
  Absent,     \* the object has no such member
  Null,       \* the member is null
  Object      \* the member is an object

(* The on_... handlers of a kind, each named like its payload_... field.   *)
Handlers(k) == CASE k = "Button" -> {"press"}
                 [] k = "Cover"  -> {"open", "close", "stop"}
                 [] OTHER        -> {}

(* The fields of a kind, and those in the object "availability".           *)
Flat(k) == Handlers(k)
             \cup (IF Commands(k) THEN {"command_topic"} ELSE {})
             \cup (IF HasState(k) THEN {"state_topic"} ELSE {})
             \cup (IF k = "BinarySensor" THEN {"on", "off"} ELSE {})
Nested == {"topic", "payload_available", "payload_not_available"}
Fields == (UNION {Flat(k) : k \in Kinds}) \cup Nested

Default == [open |-> "OPEN", close |-> "CLOSE", stop |-> "STOP", press |-> "PRESS",
            on |-> "ON", off |-> "OFF",
            command_topic |-> "id/set", state_topic |-> "id/state",
            topic |-> "id/availability",
            payload_available |-> "online", payload_not_available |-> "offline"]

Strings == UNION {Values[f] \cup {Default[f]} : f \in Fields}
States == {"s"}   \* what a Sensor or Cover publishes as its state

ASSUME FactoryAssumption ==
  /\ DOMAIN Values = Fields
  /\ Absent # Null /\ Absent # Object /\ Null # Object
  /\ {Absent, Null, Object} \cap Strings = {}

VARIABLES
  kind,       \* the entity's class
  made,       \* "factory", or "direct": the application fills Config itself
  cfg,        \* cfg_: the members, by field, "availability" and "device"
  handlers,   \* the handlers that are installed
  phase,      \* "building", "created", "running" (async_run) or "thrown"
  subscribed, \* the command topic is subscribed
  out,        \* the last call, its argument, its result and what it published
  asked       \* history: the last value that set() was called with

vars == <<kind, made, cfg, handlers, phase, subscribed, out, asked>>

(* The members that the factory's constructor gives their default.         *)
Preset(k) == (Flat(k) \ {"open", "close", "stop"}) \cup {"topic"}

Nothing == [op |-> "none", arg |-> Absent, result |-> "none", payload |-> Absent]
Members == Fields \cup {"availability", "device"}

TypeOK ==
  /\ kind \in Kinds /\ made \in {"factory", "direct"}
  /\ \A f \in Flat(kind) : cfg[f] \in Strings \cup {Absent, Null}
  /\ \A f \in Nested : cfg[f] \in Strings \cup {Absent}
  /\ cfg["availability"] \in {Absent, Null, Object}
  /\ (\E f \in Nested : cfg[f] # Absent) => cfg["availability"] = Object
  /\ handlers \subseteq Handlers(kind)
  /\ phase \in {"building", "created", "running", "thrown"}
  /\ subscribed \in BOOLEAN
  /\ out.payload \in Strings \cup States \cup {Absent}
  /\ (out.op = "command" /\ out.result = "throws") => phase = "thrown"

Init ==
  /\ kind \in Kinds /\ made \in {"factory", "direct"}
  /\ cfg = [f \in Members |->
              IF made = "direct" THEN Absent
              ELSE IF f \in Preset(kind) THEN Default[f]
              ELSE IF f = "availability" THEN Object
              ELSE IF f = "stop" /\ kind = "Cover" THEN Null ELSE Absent]
  /\ handlers = {} /\ phase = "building" /\ subscribed = FALSE /\ out = Nothing
  /\ asked = [f \in Members |-> Absent]
-----------------------------------------------------------------------------
(* EntityCfg::contains, where it does not throw, and EntityCfg::at, which  *)
(* returns a string that is there and throws otherwise.                    *)
Contains(f) == cfg[f] # Absent
Readable(f) == cfg[f] \in Strings

(* EntityCfg::set(prop, nullptr): of a nested property it makes the whole  *)
(* object null, or does nothing when there is one.                         *)
SetNull(f) ==
  IF f \in Nested
  THEN IF Contains("availability") THEN cfg ELSE [cfg EXCEPT !["availability"] = Null]
  ELSE [cfg EXCEPT ![f] = Null]

(* EntityCfg::set(prop, string), where it does not throw.                  *)
SetString(f, v) ==
  IF f \in Nested THEN [cfg EXCEPT ![f] = v, !["availability"] = Object]
                  ELSE [cfg EXCEPT ![f] = v]

(* EntityCfg::set(Device): the members that are not empty.                 *)
DeviceObject(d) == [m \in {n \in DOMAIN d : d[n] # ""} |-> d[m]]
-----------------------------------------------------------------------------
(* set() of a factory, or of an EntityCfg, with a string or nullptr.  A    *)
(* call that throws, as_object() on a null "availability", changes nothing.*)
Set(f, v) ==
  /\ phase = "building"
  /\ v # Null /\ f \in Nested => cfg["availability"] # Null
  /\ cfg' = IF v = Null THEN SetNull(f) ELSE SetString(f, v)
  /\ asked' = IF v = Null /\ f \in Nested THEN asked ELSE [asked EXCEPT ![f] = v]
  /\ UNCHANGED <<kind, made, handlers, phase, subscribed, out>>

SetDevice(d) ==
  /\ phase = "building"
  /\ cfg' = [cfg EXCEPT !["device"] = DeviceObject(d)]
  /\ asked' = [asked EXCEPT !["device"] = d]
  /\ UNCHANGED <<kind, made, handlers, phase, subscribed, out>>

(* MUTANTS of On: the handler's payload gets no default; the default       *)
(* replaces a payload that was set before.                                 *)
OnWithoutDefault(h) ==
  /\ phase = "building"
  /\ handlers' = handlers \cup {h}
  /\ UNCHANGED <<kind, made, cfg, phase, subscribed, out, asked>>

OnOverrides(h) ==
  /\ phase = "building"
  /\ handlers' = handlers \cup {h}
  /\ cfg' = IF kind = "Cover" /\ made = "factory" THEN SetString(h, Default[h]) ELSE cfg
  /\ UNCHANGED <<kind, made, phase, subscribed, out, asked>>

(* on_press, and on_open, on_close and on_stop, which give the payload its *)
(* default if the object has no such member.                               *)
On(h) ==
  /\ phase = "building"
  /\ handlers' = handlers \cup {h}
  /\ cfg' = IF kind = "Cover" /\ made = "factory" /\ ~Contains(h)
            THEN SetString(h, Default[h]) ELSE cfg
  /\ UNCHANGED <<kind, made, phase, subscribed, out, asked>>

(* create() of a factory, or the constructor of the class.                 *)
Create ==
  /\ phase = "building"
  /\ phase' = "created"
  /\ UNCHANGED <<kind, made, cfg, handlers, subscribed, out, asked>>
-----------------------------------------------------------------------------
Threw == [result |-> "throws", payload |-> Absent]
Returned(r) == [result |-> r, payload |-> Absent]
Published(p) == [result |-> "Success", payload |-> p]

(* MUTANT of UpdateAvailability: the configured payloads are not used.     *)
UpdateAvailabilityDefault(b) ==
  IF cfg["availability"] = Null THEN Threw
  ELSE IF ~Contains("topic") THEN Returned("Success")
  ELSE Published(Default[IF b THEN "payload_available" ELSE "payload_not_available"])

(* async_update_availability; contains() throws on a null object.          *)
UpdateAvailability(b) ==
  LET f == IF b THEN "payload_available" ELSE "payload_not_available"
  IN  IF cfg["availability"] = Null THEN Threw
      ELSE IF ~Contains("topic") THEN Returned("Success")
      ELSE Published(IF Contains(f) THEN cfg[f] ELSE Default[f])

(* async_update_state of the three kinds that have one.                    *)
UpdateState(s) ==
  IF kind = "Cover" /\ ~Contains("state_topic") THEN Returned("InvalidConfig")
  ELSE IF ~Readable("state_topic") THEN Threw
  ELSE IF kind = "BinarySensor"
  THEN LET f == IF s THEN "on" ELSE "off"
       IN  IF Readable(f) THEN Published(cfg[f]) ELSE Threw
  ELSE Published(s)

(* A call that has ended, with its effect on the last-call variable.       *)
Call(op, arg, r) ==
  out' = [op |-> op, arg |-> arg, result |-> r.result, payload |-> r.payload]

(* async_setup: discovery, async_subscribe_impl, which throws without a    *)
(* command topic, and async_update_availability(true).                     *)
AsyncSetup ==
  /\ phase # "building"
  /\ \/ /\ Commands(kind) /\ ~Readable("command_topic")
        /\ Call("setup", Absent, Threw)
        /\ UNCHANGED subscribed
     \/ /\ ~Commands(kind) \/ Readable("command_topic")
        /\ subscribed' = (subscribed \/ Commands(kind))
        /\ Call("availability", TRUE, UpdateAvailability(TRUE))
  /\ UNCHANGED <<kind, made, cfg, handlers, phase, asked>>

AsyncUpdateAvailability(b) ==
  /\ phase # "building"
  /\ Call("availability", b, UpdateAvailability(b))
  /\ UNCHANGED <<kind, made, cfg, handlers, phase, subscribed, asked>>

AsyncUpdateState(s) ==
  /\ phase # "building" /\ HasState(kind)
  /\ Call("state", s, UpdateState(s))
  /\ UNCHANGED <<kind, made, cfg, handlers, phase, subscribed, asked>>

(* async_run, again too after a command ended it with an exception.        *)
AsyncRun ==
  /\ phase \in {"created", "thrown"}
  /\ phase' = "running" /\ out' = Nothing
  /\ UNCHANGED <<kind, made, cfg, handlers, subscribed, asked>>
-----------------------------------------------------------------------------
(* The order of the comparisons in async_run and dispatch().               *)
Order(k) == IF k = "Button" THEN <<"press">> ELSE <<"open", "close", "stop">>

(* MUTANT of Outcome: the comparisons are made in the reverse order.       *)
OutcomeReversed(c) ==
  LET order == Order(kind)
      ends == {i \in DOMAIN order : ~Readable(order[i]) \/ cfg[order[i]] = c}
      h == order[CHOOSE i \in ends : \A j \in ends : i >= j]
  IN  CASE ends = {}         -> "ignored"
        [] ~Readable(h)      -> "throws"
        [] h \in handlers    -> h
        [] h \notin handlers -> "ignored"

(* The handler that a packet with payload c on the command topic spawns:   *)
(* the comparisons end where one is equal, or at() throws.                 *)
Outcome(c) ==
  LET order == Order(kind)
      ends == {i \in DOMAIN order : ~Readable(order[i]) \/ cfg[order[i]] = c}
      h == order[CHOOSE i \in ends : \A j \in ends : i <= j]
  IN  IF ends = {} THEN "ignored"
      ELSE IF ~Readable(h) THEN "throws"
      ELSE IF h \in handlers THEN h ELSE "ignored"

(* MUTANT of Command: an exception does not leave async_run().             *)
CommandSwallows(c) ==
  /\ phase = "running" /\ subscribed
  /\ Call("command", c, Returned(Outcome(c)))
  /\ UNCHANGED <<kind, made, cfg, handlers, phase, subscribed, asked>>

(* A publish packet on the command topic; an exception ends async_run().   *)
(* Sensor and BinarySensor have no command topic and ignore every packet.  *)
Command(c) ==
  /\ phase = "running" /\ subscribed
  /\ Call("command", c, Returned(Outcome(c)))
  /\ phase' = IF Outcome(c) = "throws" THEN "thrown" ELSE phase
  /\ UNCHANGED <<kind, made, cfg, handlers, subscribed, asked>>

Next ==
  \/ \E f \in Flat(kind) \cup Nested :
       \E v \in Values[f] \cup {Null} : Set(f, v)
  \/ \E d \in Devices : SetDevice(d)
  \/ \E h \in Handlers(kind) : On(h)
  \/ Create \/ AsyncSetup \/ AsyncRun
  \/ \E b \in BOOLEAN : AsyncUpdateAvailability(b)
  \/ \E s \in (IF kind = "BinarySensor" THEN BOOLEAN ELSE States) : AsyncUpdateState(s)
  \/ \E c \in Strings : Command(c)

Spec == Init /\ [][Next]_vars
-----------------------------------------------------------------------------
(* What the application asked of a factory: the last value given to set(), *)
(* else the default of the constructor or of the handler's function.       *)
Wanted(f) ==
  IF asked[f] # Absent THEN asked[f]
  ELSE IF f \in Preset(kind) \cup (handlers \ {"stop"}) THEN Default[f]
  ELSE Absent

(* The order of the calls of a factory does not matter: every member is    *)
(* what the application asked for, in "availability" too, where a null     *)
(* changes nothing, and the last Device replaces the one before it.        *)
ConfigAsAsked ==
  made = "factory" =>
    /\ \A f \in (Flat(kind) \cup Nested) \ {"stop"} : cfg[f] = Wanted(f)
    /\ asked["device"] # Absent =>
         \A m \in DOMAIN asked["device"] :
           (m \in DOMAIN cfg["device"]) <=> asked["device"][m] # ""

(* An entity of a factory whose strings were never set to null, and for a  *)
(* cover has an open and a close handler and a payload_stop that was set,  *)
(* never throws, whatever is called and received: a missing member is the  *)
(* only "programming/configuration error" (docs/entities.md).              *)
ConfiguredNeverThrows ==
  (made = "factory" /\ (\A f \in Fields : asked[f] # Null)
     /\ (kind = "Cover" => {"open", "close"} \subseteq handlers /\ asked["stop"] # Absent))
    => out.result # "throws"

(* Whoever reads the discovery document, with its defaults, understands    *)
(* the availability and the binary state that are published: the payload   *)
(* is the one for yes exactly when the call said yes, if the two differ.   *)
UnderstoodAsAnnounced ==
  LET Reads(f) == IF Contains(f) THEN cfg[f] ELSE Default[f]
      yes == Reads(IF out.op = "state" THEN "on" ELSE "payload_available")
      no == Reads(IF out.op = "state" THEN "off" ELSE "payload_not_available")
  IN  (out.payload # Absent /\ yes # no
         /\ (out.op = "availability" \/ kind = "BinarySensor"))
        => (out.payload = yes <=> out.arg) /\ (out.payload = no <=> ~out.arg)

(* An entity of a factory obeys the commands that have handlers, a cover   *)
(* that has one for open and one for close: the payload that was asked for *)
(* runs the handler, unless an earlier one in dispatch() is the same, and  *)
(* the run goes on, even when payload_stop is still null.                  *)
CommandsObeyed ==
  \A h \in {"press", "open", "close"} \cap handlers :
    (made = "factory" /\ (kind = "Cover" => {"open", "close"} \subseteq handlers)
       /\ out.op = "command" /\ out.arg = Wanted(h)
       /\ Wanted("open") # Null
       /\ (h = "close" => Wanted("open") # Wanted("close")))
      => out.result = h /\ phase = "running"

(* A cover with all three handlers obeys STOP (tests/integration_tests/    *)
(* cover.cpp, "STOP command"): on_stop gives payload_stop its default.     *)
StopObeyed ==
  (handlers = Handlers("Cover") /\ (\A f \in Members : asked[f] = Absent)
     /\ made = "factory" /\ out.op = "command" /\ out.arg = "STOP")
    => out.result = "stop"
=============================================================================
