------------------------- MODULE EntityFactoryProofs -------------------------
(***************************************************************************)
(* Proofs about EntityFactory: calls of a factory in any order and number, *)
(* with any strings and devices, give the configuration that was asked     *)
(* for, and the entity made of it behaves as its configuration says.       *)
(***************************************************************************)
EXTENDS EntityFactory, TLAPS

(* The configuration and what was asked of it have one value per member;   *)
(* of a factory, "availability" is always an object, payload_stop is what  *)
(* was asked for, and the device is made of the last one that was set.     *)
ConfigInv ==
  /\ kind \in Kinds /\ made \in {"factory", "direct"} /\ handlers \subseteq Handlers(kind)
  /\ cfg = [f \in Members |-> cfg[f]] /\ asked = [f \in Members |-> asked[f]]
  /\ \A f \in Flat(kind) : cfg[f] \in Strings \cup {Absent, Null}
  /\ \A f \in Nested : cfg[f] \in Strings \cup {Absent}
  /\ cfg["availability"] \in {Absent, Null, Object}
  /\ (\E f \in Nested : cfg[f] # Absent) => cfg["availability"] = Object
  /\ \A f \in Fields : asked[f] \in Values[f] \cup {Null, Absent}
  /\ made = "factory" =>
       /\ cfg["availability"] = Object
       /\ \A f \in (Flat(kind) \cup Nested) \ {"stop"} : cfg[f] = Wanted(f)
       /\ kind = "Cover" /\ asked["stop"] # Absent => cfg["stop"] = asked["stop"]
       /\ asked["device"] # Absent => cfg["device"] = DeviceObject(asked["device"])

(* Nothing is called before the entity is created, only a kind that has    *)
(* commands subscribes, and the last call was right.                       *)
CallsInv ==
  /\ phase \in {"building", "created", "running", "thrown"}
  /\ phase = "building" => out = Nothing
  /\ subscribed \in BOOLEAN /\ (subscribed => Commands(kind))
  /\ out.payload \in Strings \cup States \cup {Absent}
  /\ (out.op = "command" /\ out.result = "throws") => phase = "thrown"
  /\ ConfiguredNeverThrows
  /\ UnderstoodAsAnnounced
  /\ CommandsObeyed

(* The inductive invariant of the proofs below.                            *)
IndInv == ConfigInv /\ CallsInv
-----------------------------------------------------------------------------
(* The fields: those of a kind are apart from the ones in "availability",  *)
(* and "stop", the payload that has no default, is a cover's only.         *)
LEMMA FieldFacts ==
  ASSUME NEW k \in Kinds
  PROVE  /\ Flat(k) \subseteq Fields /\ Nested \subseteq Fields /\ Fields \subseteq Members
         /\ "availability" \notin Fields /\ "device" \notin Fields
         /\ "availability" \in Members /\ "device" \in Members
         /\ Flat(k) \cap Nested = {}
         /\ Handlers(k) \subseteq Flat(k)
         /\ Preset(k) \subseteq Fields /\ "stop" \notin Preset(k)
         /\ "stop" \in Flat(k) <=> k = "Cover"
         /\ "stop" \notin Nested
<1>0. \A f : f \in Fields <=> f \in Nested \/ \E j \in Kinds : f \in Flat(j)
  BY DEF Fields
<1>1. Flat(k) \subseteq Fields /\ Nested \subseteq Fields
  BY <1>0
<1>2. Fields \subseteq Members /\ "availability" \in Members /\ "device" \in Members
  BY DEF Members
<1>3. \A j \in Kinds : Flat(j) \cap (Nested \cup {"availability", "device"}) = {}
  BY DEF Kinds, Flat, Handlers, Nested, Commands, HasState
<1>4. "availability" \notin Nested /\ "device" \notin Nested /\ "stop" \notin Nested
      /\ "topic" \in Nested
  BY DEF Nested
<1>5. "availability" \notin Fields /\ "device" \notin Fields
  BY <1>0, <1>3, <1>4
<1>6. Handlers(k) \subseteq Flat(k)
  BY DEF Flat
<1>7. Preset(k) \subseteq Fields /\ "stop" \notin Preset(k)
  BY <1>1, <1>4 DEF Preset
<1>8. "stop" \in Flat(k) <=> k = "Cover"
  BY DEF Kinds, Flat, Handlers, Commands, HasState
<1> QED BY <1>1, <1>2, <1>3, <1>4, <1>5, <1>6, <1>7, <1>8

(* Every default, and every value an application may set, is a string.     *)
LEMMA StringFacts ==
  /\ \A f \in Fields : Default[f] \in Strings /\ Values[f] \subseteq Strings
  /\ Absent \notin Strings /\ Null \notin Strings /\ Object \notin Strings
  /\ Absent # Null /\ Absent # Object /\ Null # Object
BY FactoryAssumption DEF FactoryAssumption, Strings

(* The constructor of a factory, and an empty Config, satisfy the          *)
(* inductive invariant.                                                    *)
LEMMA InitInv == Init => IndInv
<1> SUFFICES ASSUME Init PROVE IndInv
  OBVIOUS
<1> USE StringFacts
<1>0. kind \in Kinds /\ made \in {"factory", "direct"} /\ handlers = {}
  BY DEF Init
<1>1. /\ \A f \in Members :
           cfg[f] = IF made = "direct" THEN Absent
                    ELSE IF f \in Preset(kind) THEN Default[f]
                    ELSE IF f = "availability" THEN Object
                    ELSE IF f = "stop" /\ kind = "Cover" THEN Null ELSE Absent
      /\ \A f \in Members : asked[f] = Absent
      /\ cfg = [f \in Members |-> cfg[f]] /\ asked = [f \in Members |-> asked[f]]
  BY DEF Init
<1>2. /\ Flat(kind) \subseteq Fields /\ Nested \subseteq Fields /\ Fields \subseteq Members
      /\ "availability" \notin Fields /\ "device" \notin Fields
      /\ "availability" \in Members /\ "device" \in Members
      /\ Flat(kind) \cap Nested = {} /\ Preset(kind) \subseteq Fields
      /\ "stop" \notin Nested /\ ("stop" \in Flat(kind) <=> kind = "Cover")
  BY <1>0, FieldFacts
<1>3. \A f \in Fields : cfg[f] \in Strings \cup {Absent, Null} /\ (f # "stop" => cfg[f] # Null)
  BY <1>1, <1>2
<1>4. cfg["availability"] = IF made = "direct" THEN Absent ELSE Object
  BY <1>1, <1>2
<1>5. made = "direct" => \A f \in Nested : cfg[f] = Absent
  BY <1>1, <1>2
<1>6. made = "factory" =>
        /\ \A f \in (Flat(kind) \cup Nested) \ {"stop"} : cfg[f] = Wanted(f)
        /\ asked["stop"] = Absent \/ kind # "Cover"
        /\ asked["device"] = Absent
  BY <1>0, <1>1, <1>2 DEF Wanted
<1>7. ConfigInv
  BY <1>0, <1>1, <1>2, <1>3, <1>4, <1>5, <1>6 DEF ConfigInv
<1>8. CallsInv
  BY DEF Init, CallsInv, Nothing, ConfiguredNeverThrows, UnderstoodAsAnnounced, CommandsObeyed
<1> QED BY <1>7, <1>8 DEF IndInv

(* SetString and SetNull change the member they are called for, and of a   *)
(* nested one also the object it is in.                                    *)
LEMMA SetFacts ==
  ASSUME ConfigInv, NEW f \in Flat(kind) \cup Nested, NEW v,
         cfg' = SetString(f, v) \/ (f \notin Nested /\ v = Null /\ cfg' = SetNull(f))
  PROVE  /\ cfg' = [g \in Members |-> cfg'[g]]
         /\ cfg'[f] = v
         /\ \A g \in Members : g # f /\ g # "availability" => cfg'[g] = cfg[g]
         /\ f \in Nested => cfg'["availability"] = Object
         /\ f \notin Nested => cfg'["availability"] = cfg["availability"]
<1>1. f \in Members /\ f # "availability" /\ "availability" \in Members
  BY FieldFacts DEF ConfigInv
<1>2. cfg = [g \in Members |-> cfg[g]]
  BY DEF ConfigInv
<1>3. CASE f \in Nested
  <2>1. cfg' = [cfg EXCEPT ![f] = v, !["availability"] = Object]
    BY <1>3 DEF SetString
  <2> QED BY <1>1, <1>2, <1>3, <2>1
<1>4. CASE f \notin Nested
  <2>1. cfg' = [cfg EXCEPT ![f] = v]
    BY <1>4 DEF SetString, SetNull
  <2> QED BY <1>1, <1>2, <1>4, <2>1
<1> QED BY <1>3, <1>4

(* set() with a string or nullptr.                                         *)
LEMMA SetStep ==
  ASSUME ConfigInv, NEW f \in Flat(kind) \cup Nested, NEW v \in Values[f] \cup {Null},
         Set(f, v)
  PROVE  ConfigInv'
<1> USE StringFacts
<1>0. /\ UNCHANGED <<kind, made, handlers>>
      /\ v # Null /\ f \in Nested => cfg["availability"] # Null
      /\ cfg' = IF v = Null THEN SetNull(f) ELSE SetString(f, v)
      /\ asked' = IF v = Null /\ f \in Nested THEN asked ELSE [asked EXCEPT ![f] = v]
  BY DEF Set
<1>1. /\ kind \in Kinds /\ Flat(kind) \subseteq Fields /\ Nested \subseteq Fields
      /\ Fields \subseteq Members /\ "availability" \notin Fields /\ "device" \notin Fields
      /\ "availability" \in Members /\ "device" \in Members /\ Flat(kind) \cap Nested = {}
      /\ Preset(kind) \subseteq Fields /\ "stop" \notin Nested
      /\ kind = "Cover" <=> "stop" \in Flat(kind)
      /\ handlers \subseteq Flat(kind)
  BY FieldFacts DEF ConfigInv
<1>2. CASE v = Null /\ f \in Nested
  <2>1. asked' = asked
    BY <1>0, <1>2
  <2>2. CASE Contains("availability")
    <3>1. cfg' = cfg
      BY <1>0, <1>2, <2>2 DEF SetNull
    <3> QED BY <1>0, <2>1, <3>1 DEF ConfigInv, Wanted
  <2>3. CASE ~Contains("availability")
    <3>1. cfg' = [cfg EXCEPT !["availability"] = Null] /\ cfg["availability"] = Absent
      BY <1>0, <1>2, <2>3 DEF SetNull, Contains
    <3>2. made = "direct" /\ \A g \in Nested : cfg[g] = Absent
      BY <3>1 DEF ConfigInv
    <3>3. /\ cfg' = [g \in Members |-> cfg'[g]] /\ cfg'["availability"] = Null
          /\ \A g \in Fields : cfg'[g] = cfg[g]
      BY <1>1, <3>1 DEF ConfigInv
    <3> QED BY <1>0, <1>1, <2>1, <3>2, <3>3 DEF ConfigInv
  <2> QED BY <2>2, <2>3
<1>3. CASE v # Null \/ f \notin Nested
  <2>1. asked' = [asked EXCEPT ![f] = v] /\ asked = [g \in Members |-> asked[g]]
    BY <1>0, <1>3 DEF ConfigInv
  <2>2. /\ asked' = [g \in Members |-> asked'[g]] /\ asked'[f] = v
        /\ \A g \in Members : g # f => asked'[g] = asked[g]
    BY <1>1, <2>1
  <2>3. cfg' = SetString(f, v) \/ (f \notin Nested /\ v = Null /\ cfg' = SetNull(f))
    BY <1>0, <1>3
  <2>4. /\ cfg' = [g \in Members |-> cfg'[g]] /\ cfg'[f] = v
        /\ \A g \in Members : g # f /\ g # "availability" => cfg'[g] = cfg[g]
        /\ f \in Nested => cfg'["availability"] = Object
        /\ f \notin Nested => cfg'["availability"] = cfg["availability"]
    BY <2>3, SetFacts
  <2>5. v \in Strings \cup {Null} /\ (f \in Nested => v \in Strings) /\ v # Absent
    BY <1>1, <1>3
  <2>6. /\ \A g \in Flat(kind) : cfg'[g] \in Strings \cup {Absent, Null}
        /\ \A g \in Nested : cfg'[g] \in Strings \cup {Absent}
        /\ cfg'["availability"] \in {Absent, Null, Object}
    BY <1>1, <2>4, <2>5 DEF ConfigInv
  <2>7. (\E g \in Nested : cfg'[g] # Absent) => cfg'["availability"] = Object
    BY <1>1, <2>4 DEF ConfigInv
  <2>8. \A g \in Fields : asked'[g] \in Values[g] \cup {Null, Absent}
    BY <1>1, <2>2 DEF ConfigInv
  <2>9. ASSUME made = "factory"
        PROVE  /\ cfg'["availability"] = Object
               /\ \A g \in (Flat(kind) \cup Nested) \ {"stop"} : cfg'[g] = Wanted(g)'
               /\ kind = "Cover" /\ asked'["stop"] # Absent => cfg'["stop"] = asked'["stop"]
               /\ asked'["device"] # Absent => cfg'["device"] = DeviceObject(asked'["device"])
    <3>1. cfg'["availability"] = Object
      BY <2>4, <2>9 DEF ConfigInv
    <3>2. ASSUME NEW g \in (Flat(kind) \cup Nested) \ {"stop"} PROVE cfg'[g] = Wanted(g)'
      <4>1. CASE g = f
        BY <2>2, <2>4, <2>5, <4>1 DEF Wanted
      <4>2. CASE g # f
        <5>1. cfg'[g] = cfg[g] /\ asked'[g] = asked[g]
          BY <1>1, <2>2, <2>4, <4>2
        <5> QED BY <1>0, <2>9, <5>1 DEF ConfigInv, Wanted
      <4> QED BY <4>1, <4>2
    <3>3. kind = "Cover" /\ asked'["stop"] # Absent => cfg'["stop"] = asked'["stop"]
      BY <1>1, <2>2, <2>4, <2>9 DEF ConfigInv
    <3>4. asked'["device"] # Absent => cfg'["device"] = DeviceObject(asked'["device"])
      BY <1>1, <2>2, <2>4, <2>9 DEF ConfigInv
    <3> QED BY <3>1, <3>2, <3>3, <3>4
  <2> QED BY <1>0, <2>2, <2>4, <2>6, <2>7, <2>8, <2>9 DEF ConfigInv
<1> QED BY <1>2, <1>3

(* set(Device).                                                            *)
LEMMA SetDeviceStep ==
  ASSUME ConfigInv, NEW d \in Devices, SetDevice(d)
  PROVE  ConfigInv'
<1>1. /\ kind \in Kinds /\ Flat(kind) \subseteq Fields /\ Nested \subseteq Fields
      /\ Fields \subseteq Members /\ "device" \notin Fields
      /\ "availability" \in Members /\ "device" \in Members
      /\ "stop" \in Flat(kind) <=> kind = "Cover"
  BY FieldFacts DEF ConfigInv
<1>2. /\ UNCHANGED <<kind, made, handlers>>
      /\ cfg' = [cfg EXCEPT !["device"] = DeviceObject(d)]
      /\ asked' = [asked EXCEPT !["device"] = d]
  BY DEF SetDevice
<1>3. /\ cfg' = [f \in Members |-> cfg'[f]] /\ asked' = [f \in Members |-> asked'[f]]
      /\ \A f \in Members : f # "device" => cfg'[f] = cfg[f] /\ asked'[f] = asked[f]
      /\ cfg'["device"] = DeviceObject(d) /\ asked'["device"] = d
  BY <1>1, <1>2 DEF ConfigInv
<1>4. \A f \in Fields \cup {"availability"} : cfg'[f] = cfg[f] /\ asked'[f] = asked[f]
  BY <1>1, <1>3
<1>5. \A f \in Fields : Wanted(f)' = Wanted(f)
  BY <1>2, <1>4 DEF Wanted
<1>6. /\ kind' \in Kinds /\ made' \in {"factory", "direct"}
      /\ handlers' \subseteq Handlers(kind')
      /\ \A f \in Flat(kind') : cfg'[f] \in Strings \cup {Absent, Null}
      /\ \A f \in Nested : cfg'[f] \in Strings \cup {Absent}
      /\ cfg'["availability"] \in {Absent, Null, Object}
      /\ (\E f \in Nested : cfg'[f] # Absent) => cfg'["availability"] = Object
      /\ \A f \in Fields : asked'[f] \in Values[f] \cup {Null, Absent}
  BY <1>1, <1>2, <1>4 DEF ConfigInv
<1>7. made = "factory" =>
        /\ cfg'["availability"] = Object
        /\ \A f \in (Flat(kind) \cup Nested) \ {"stop"} : cfg'[f] = Wanted(f)'
        /\ kind = "Cover" /\ asked'["stop"] # Absent => cfg'["stop"] = asked'["stop"]
  BY <1>1, <1>4, <1>5 DEF ConfigInv
<1> QED BY <1>2, <1>3, <1>6, <1>7 DEF ConfigInv

(* on_press, on_open, on_close and on_stop: a handler's payload gets its   *)
(* default when nothing else was asked for, in whatever order.             *)
LEMMA OnStep ==
  ASSUME ConfigInv, NEW h \in Handlers(kind), On(h)
  PROVE  ConfigInv'
<1> USE StringFacts
<1>0. /\ UNCHANGED <<kind, made, asked>> /\ handlers' = handlers \cup {h}
      /\ cfg' = IF kind = "Cover" /\ made = "factory" /\ ~Contains(h)
                THEN SetString(h, Default[h]) ELSE cfg
  BY DEF On
<1>1. /\ kind \in Kinds /\ Flat(kind) \subseteq Fields /\ Nested \subseteq Fields
      /\ Fields \subseteq Members /\ "availability" \notin Fields /\ "device" \notin Fields
      /\ "device" \in Members
      /\ Flat(kind) \cap Nested = {} /\ "stop" \notin Preset(kind)
      /\ h \in Flat(kind) /\ handlers \subseteq Flat(kind)
      /\ "stop" \in Flat(kind) <=> kind = "Cover"
  BY FieldFacts DEF ConfigInv
<1>2. handlers' \subseteq Handlers(kind)
  BY <1>0 DEF ConfigInv
<1>3. CASE kind = "Cover" /\ made = "factory" /\ ~Contains(h)
  <2>1. cfg' = SetString(h, Default[h]) /\ cfg[h] = Absent /\ Default[h] \in Strings
    BY <1>0, <1>1, <1>3 DEF Contains
  <2>2. /\ cfg' = [g \in Members |-> cfg'[g]] /\ cfg'[h] = Default[h]
        /\ \A g \in Members : g # h /\ g # "availability" => cfg'[g] = cfg[g]
        /\ cfg'["availability"] = cfg["availability"]
    BY <1>1, <2>1, SetFacts
  <2>3. \A g \in Fields \cup {"device"} : g # h => cfg'[g] = cfg[g]
    BY <1>1, <2>2
  <2>4. ASSUME NEW g \in (Flat(kind) \cup Nested) \ {"stop"} PROVE cfg'[g] = Wanted(g)'
    <3>1. CASE g = h
      <4>1. Wanted(h) = Absent /\ h # "stop"
        BY <1>3, <2>1, <3>1 DEF ConfigInv
      <4>2. asked[h] = Absent
        BY <4>1 DEF Wanted
      <4> QED BY <1>0, <2>2, <3>1, <4>1, <4>2 DEF Wanted
    <3>2. CASE g # h
      <4>1. cfg'[g] = cfg[g]
        BY <1>1, <2>3, <3>2
      <4> QED BY <1>0, <1>3, <3>2, <4>1 DEF ConfigInv, Wanted
    <3> QED BY <3>1, <3>2
  <2>5. asked["stop"] # Absent => cfg'["stop"] = asked["stop"]
    BY <1>1, <1>3, <2>1, <2>3 DEF ConfigInv
  <2>6. asked["device"] # Absent => cfg'["device"] = DeviceObject(asked["device"])
    BY <1>1, <1>3, <2>3 DEF ConfigInv
  <2>7. /\ \A g \in Flat(kind) : cfg'[g] \in Strings \cup {Absent, Null}
        /\ \A g \in Nested : cfg'[g] = cfg[g]
    BY <1>1, <2>1, <2>2, <2>3 DEF ConfigInv
  <2> QED BY <1>0, <1>2, <1>3, <2>2, <2>4, <2>5, <2>6, <2>7 DEF ConfigInv
<1>4. CASE ~(kind = "Cover" /\ made = "factory" /\ ~Contains(h))
  <2>1. cfg' = cfg
    BY <1>0, <1>4
  <2>2. ASSUME made = "factory", NEW g \in (Flat(kind) \cup Nested) \ {"stop"}
        PROVE  cfg'[g] = Wanted(g)'
    <3>1. cfg[g] = Wanted(g)
      BY <2>2 DEF ConfigInv
    <3>2. CASE g # h
      BY <1>0, <2>1, <3>1, <3>2 DEF Wanted
    <3>3. CASE g = h
      <4>1. CASE kind = "Cover"
        BY <1>0, <1>4, <2>1, <2>2, <3>1, <3>3, <4>1 DEF Contains, Wanted
      <4>2. CASE kind # "Cover"
        <5>1. h \in Preset(kind)
          BY <1>1, <4>2 DEF Preset, Handlers, Kinds
        <5> QED BY <1>0, <2>1, <3>1, <3>3, <5>1 DEF Wanted
      <4> QED BY <4>1, <4>2
    <3> QED BY <3>2, <3>3
  <2> QED BY <1>0, <1>2, <2>1, <2>2 DEF ConfigInv
<1> QED BY <1>3, <1>4

(* Every step preserves the configuration's part of the invariant.         *)
LEMMA ConfigStep == ConfigInv /\ [Next]_vars => ConfigInv'
<1> SUFFICES ASSUME ConfigInv, [Next]_vars PROVE ConfigInv'
  OBVIOUS
<1>1. CASE UNCHANGED <<kind, made, cfg, handlers, asked>>
  BY <1>1 DEF ConfigInv, Wanted
<1>2. CASE \/ Create \/ AsyncSetup \/ AsyncRun \/ UNCHANGED vars
           \/ \E b \in BOOLEAN : AsyncUpdateAvailability(b)
           \/ \E s \in (IF kind = "BinarySensor" THEN BOOLEAN ELSE States) : AsyncUpdateState(s)
           \/ \E c \in Strings : Command(c)
  BY <1>1, <1>2
     DEF Create, AsyncSetup, AsyncRun, AsyncUpdateAvailability, AsyncUpdateState, Command, vars
<1> QED BY <1>2, SetStep, SetDeviceStep, OnStep DEF Next
-----------------------------------------------------------------------------
(* The comparison at which async_run or dispatch() ends is the first one.  *)
LEMMA FirstOf ==
  ASSUME NEW E \in SUBSET {1, 2, 3}, E # {}
  PROVE  LET m == CHOOSE i \in E : \A j \in E : i <= j
         IN  m \in E /\ \A j \in E : m <= j
<1>1. \E i \in E : \A j \in E : i <= j
  <2>1. CASE 1 \in E
    BY <2>1
  <2>2. CASE 1 \notin E /\ 2 \in E
    BY <2>2
  <2>3. CASE 1 \notin E /\ 2 \notin E
    <3>1. E = {3}
      BY <2>3
    <3> QED BY <3>1
  <2> QED BY <2>1, <2>2, <2>3
<1> QED BY <1>1

(* Outcome: a command throws only when a payload is not a string, and runs *)
(* the handler of its payload unless an earlier payload is the same or no  *)
(* string.                                                                 *)
LEMMA OutcomeFacts ==
  ASSUME ConfigInv, Commands(kind), NEW c \in Strings
  PROVE  /\ (\A h \in Handlers(kind) : Readable(h)) => Outcome(c) # "throws"
         /\ kind = "Button" /\ "press" \in handlers /\ cfg["press"] = c
              => Outcome(c) = "press"
         /\ kind = "Cover" /\ "open" \in handlers /\ cfg["open"] = c
              => Outcome(c) = "open"
         /\ kind = "Cover" /\ "close" \in handlers /\ cfg["close"] = c
              /\ Readable("open") /\ cfg["open"] # c
              => Outcome(c) = "close"
<1> DEFINE order == Order(kind)
           ends == {i \in DOMAIN order : ~Readable(order[i]) \/ cfg[order[i]] = c}
           m == CHOOSE i \in ends : \A j \in ends : i <= j
<1>1. Outcome(c) = IF ends = {} THEN "ignored"
                   ELSE IF ~Readable(order[m]) THEN "throws"
                   ELSE IF order[m] \in handlers THEN order[m] ELSE "ignored"
  BY DEF Outcome
<1>2. CASE kind = "Button"
  <2>1. order = <<"press">> /\ DOMAIN order = {1} /\ order[1] = "press"
    BY <1>2 DEF Order
  <2>2. ends \subseteq {1}
    BY <2>1
  <2>3. ends # {} => m = 1
    BY <2>2, FirstOf
  <2>4. Handlers(kind) = {"press"}
    BY <1>2 DEF Handlers
  <2>5. 1 \in ends <=> (~Readable("press") \/ cfg["press"] = c)
    BY <2>1
  <2>6. cfg["press"] = c => Readable("press")
    BY DEF Readable
  <2> HIDE DEF order, ends, m
  <2> QED BY <1>1, <1>2, <2>1, <2>2, <2>3, <2>4, <2>5, <2>6
<1>3. CASE kind = "Cover"
  <2>1. /\ order = <<"open", "close", "stop">> /\ DOMAIN order = {1, 2, 3}
        /\ order[1] = "open" /\ order[2] = "close" /\ order[3] = "stop"
    BY <1>3 DEF Order
  <2>2. ends \subseteq {1, 2, 3}
    BY <2>1
  <2>3. ends # {} => m \in ends /\ \A j \in ends : m <= j
    BY <2>2, FirstOf
  <2>4. Handlers(kind) = {"open", "close", "stop"}
    BY <1>3 DEF Handlers
  <2>5. /\ 1 \in ends <=> (~Readable("open") \/ cfg["open"] = c)
        /\ 2 \in ends <=> (~Readable("close") \/ cfg["close"] = c)
    BY <2>1
  <2>6. \A f \in {"open", "close"} : cfg[f] = c => Readable(f)
    BY DEF Readable
  <2> HIDE DEF order, ends, m
  <2>7. ends # {} => order[m] \in {"open", "close", "stop"}
    BY <2>1, <2>2, <2>3
  <2>8. (\A h \in Handlers(kind) : Readable(h)) => Outcome(c) # "throws"
    BY <1>1, <2>4, <2>7
  <2>9. "open" \in handlers /\ cfg["open"] = c => Outcome(c) = "open"
    <3>1. cfg["open"] = c => ends # {} /\ m = 1
      <4>1. 1 \in ends => m \in {1, 2, 3} /\ m <= 1
        BY <2>2, <2>3
      <4>2. 1 \in ends => ends # {} /\ m = 1
        BY <4>1
      <4> QED BY <2>5, <4>2
    <3> QED BY <1>1, <2>1, <2>6, <3>1
  <2>10. /\ "close" \in handlers /\ cfg["close"] = c
         /\ Readable("open") /\ cfg["open"] # c
         => Outcome(c) = "close"
    <3>1. Readable("open") /\ cfg["open"] # c /\ cfg["close"] = c => ends # {} /\ m = 2
      <4>1. 2 \in ends => m \in {1, 2, 3} /\ m <= 2 /\ m \in ends
        BY <2>2, <2>3
      <4>2. 2 \in ends /\ 1 \notin ends => ends # {} /\ m = 2
        BY <4>1
      <4> QED BY <2>5, <4>2
    <3> QED BY <1>1, <2>1, <2>6, <3>1
  <2> QED BY <1>3, <2>8, <2>9, <2>10
<1> QED BY <1>2, <1>3 DEF Commands

(* The strings of a factory's entity: a member that was not set to null    *)
(* can be read, if the factory gives it a default or it was set.           *)
LEMMA FactoryFacts ==
  ASSUME ConfigInv, made = "factory",
         \A f \in Fields : asked[f] # Null,
         kind = "Cover" => {"open", "close"} \subseteq handlers /\ asked["stop"] # Absent
  PROVE  /\ cfg["availability"] = Object
         /\ \A f \in Flat(kind) : Readable(f)
<1> USE StringFacts
<1>1. kind \in Kinds /\ Flat(kind) \subseteq Fields
  BY FieldFacts DEF ConfigInv
<1>2. \A f \in Fields : asked[f] # Absent => asked[f] \in Strings
  BY DEF ConfigInv
<1>3. ASSUME NEW f \in Flat(kind), f # "stop" PROVE Readable(f)
  <2>1. f \in Preset(kind) \cup (handlers \ {"stop"})
    <3>1. CASE f \in {"open", "close"}
      <4>1. kind = "Cover"
        BY <1>1, <3>1 DEF Flat, Handlers, Kinds, Commands, HasState
      <4> QED BY <3>1, <4>1
    <3>2. CASE f \notin {"open", "close"}
      BY <1>3, <3>2 DEF Preset
    <3> QED BY <3>1, <3>2
  <2>2. cfg[f] = Wanted(f)
    BY <1>3 DEF ConfigInv
  <2>3. Wanted(f) \in Strings
    BY <1>1, <1>2, <2>1 DEF Wanted
  <2> QED BY <2>2, <2>3 DEF Readable
<1>4. ASSUME "stop" \in Flat(kind) PROVE Readable("stop")
  <2>1. kind = "Cover" /\ "stop" \in Fields
    BY <1>1, <1>4, FieldFacts
  <2>2. cfg["stop"] = asked["stop"]
    BY <2>1 DEF ConfigInv
  <2> QED BY <1>2, <2>1, <2>2 DEF Readable
<1> QED BY <1>3, <1>4 DEF ConfigInv
-----------------------------------------------------------------------------
(* A step that leaves the configuration alone, and whose call is right,    *)
(* preserves the calls' part of the invariant: what a call must not do is  *)
(* stated of the new value of out.                                         *)
LEMMA CallStep ==
  ASSUME ConfigInv, UNCHANGED <<kind, made, cfg, handlers, asked>>,
         phase' \in {"created", "running", "thrown"},
         subscribed' \in BOOLEAN, subscribed' => Commands(kind),
         out'.payload \in Strings \cup States \cup {Absent},
         (out'.op = "command" /\ out'.result = "throws") => phase' = "thrown",
         ConfiguredNeverThrows', UnderstoodAsAnnounced', CommandsObeyed'
  PROVE  CallsInv'
BY DEF CallsInv

(* async_update_availability(b), also as the last step of async_setup.     *)
LEMMA AvailabilityCall ==
  ASSUME ConfigInv, NEW b \in BOOLEAN, Call("availability", b, UpdateAvailability(b)),
         UNCHANGED <<kind, made, cfg, handlers, asked>>
  PROVE  /\ out'.payload \in Strings \cup States \cup {Absent}
         /\ out'.op = "availability"
         /\ ConfiguredNeverThrows' /\ UnderstoodAsAnnounced' /\ CommandsObeyed'
<1> USE StringFacts
<1> DEFINE f == IF b THEN "payload_available" ELSE "payload_not_available"
           Reads(g) == IF Contains(g) THEN cfg[g] ELSE Default[g]
<1>1. out' = [op |-> "availability", arg |-> b, result |-> UpdateAvailability(b).result,
              payload |-> UpdateAvailability(b).payload]
  BY DEF Call
<1>2. out'.op = "availability" /\ out'.arg = b
  BY <1>1
<1>3. \/ out'.payload = Absent /\ cfg["availability"] = Null
      \/ out'.payload = Absent /\ out'.result = "Success"
      \/ out'.payload = Reads(f) /\ out'.result = "Success"
  BY <1>1 DEF UpdateAvailability, Threw, Returned, Published
<1>4. "payload_available" \in Nested /\ "payload_not_available" \in Nested
  BY DEF Nested
<1>5. Reads(f) \in Strings
  <2>1. f \in Nested /\ f \in Fields
    BY <1>4, FieldFacts DEF ConfigInv
  <2> QED BY <2>1 DEF ConfigInv, Contains
<1>6. ConfiguredNeverThrows'
  BY <1>3, FactoryFacts DEF ConfiguredNeverThrows
<1>7. UnderstoodAsAnnounced'
  BY <1>2, <1>3 DEF UnderstoodAsAnnounced, Contains
<1>8. CommandsObeyed'
  BY <1>2 DEF CommandsObeyed
<1> QED BY <1>2, <1>3, <1>5, <1>6, <1>7, <1>8

(* async_update_state.                                                     *)
LEMMA StateCall ==
  ASSUME ConfigInv, HasState(kind),
         NEW s \in (IF kind = "BinarySensor" THEN BOOLEAN ELSE States),
         Call("state", s, UpdateState(s)),
         UNCHANGED <<kind, made, cfg, handlers, asked>>
  PROVE  /\ out'.payload \in Strings \cup States \cup {Absent}
         /\ out'.op = "state"
         /\ ConfiguredNeverThrows' /\ UnderstoodAsAnnounced' /\ CommandsObeyed'
<1> USE StringFacts
<1>1. out' = [op |-> "state", arg |-> s, result |-> UpdateState(s).result,
              payload |-> UpdateState(s).payload]
  BY DEF Call
<1>2. out'.op = "state" /\ out'.arg = s
  BY <1>1
<1> DEFINE f == IF s THEN "on" ELSE "off"
<1>3. /\ out'.payload = Absent \/ kind # "BinarySensor" \/ (Readable(f) /\ out'.payload = cfg[f])
      /\ out'.payload = Absent \/ kind = "BinarySensor" \/ out'.payload = s
      /\ out'.result = "throws" => \/ ~Readable("state_topic")
                                   \/ kind = "BinarySensor" /\ ~Readable(f)
  BY <1>1 DEF UpdateState, Threw, Returned, Published
<1>4. out'.payload \in Strings \cup States \cup {Absent}
  BY <1>3 DEF Readable
<1>5. /\ "state_topic" \in Flat(kind)
      /\ kind = "BinarySensor" => {"on", "off"} \subseteq Flat(kind)
  BY DEF Flat
<1>6. ConfiguredNeverThrows'
  BY <1>3, <1>5, FactoryFacts DEF ConfiguredNeverThrows
<1>7. UnderstoodAsAnnounced'
  <2>1. CASE kind = "BinarySensor"
    <3>1. s \in BOOLEAN
      BY <2>1
    <3>2. Readable(f) => Contains(f)
      BY DEF Readable, Contains
    <3> QED BY <1>2, <1>3, <2>1, <3>1, <3>2 DEF UnderstoodAsAnnounced, Contains
  <2>2. CASE kind # "BinarySensor"
    BY <1>2, <2>2 DEF UnderstoodAsAnnounced
  <2> QED BY <2>1, <2>2
<1>8. CommandsObeyed'
  BY <1>2 DEF CommandsObeyed
<1> QED BY <1>2, <1>4, <1>6, <1>7, <1>8

(* A packet on the command topic.                                          *)
LEMMA CommandCall ==
  ASSUME ConfigInv, Commands(kind), phase = "running", NEW c \in Strings, Command(c)
  PROVE  /\ out'.payload = Absent
         /\ out'.result = "throws" => phase' = "thrown"
         /\ phase' \in {"running", "thrown"}
         /\ ConfiguredNeverThrows' /\ UnderstoodAsAnnounced' /\ CommandsObeyed'
<1> USE StringFacts
<1>1. /\ out' = [op |-> "command", arg |-> c, result |-> Outcome(c), payload |-> Absent]
      /\ phase' = IF Outcome(c) = "throws" THEN "thrown" ELSE "running"
      /\ UNCHANGED <<kind, made, cfg, handlers, asked>>
  BY DEF Command, Call, Returned
<1>2. /\ out'.op = "command" /\ out'.arg = c /\ out'.result = Outcome(c)
      /\ out'.payload = Absent
  BY <1>1
<1>3. kind \in Kinds /\ Handlers(kind) \subseteq Flat(kind) /\ handlers \subseteq Handlers(kind)
  BY FieldFacts DEF ConfigInv
<1>4. ConfiguredNeverThrows'
  BY <1>1, <1>2, <1>3, OutcomeFacts, FactoryFacts DEF ConfiguredNeverThrows
<1>5. UnderstoodAsAnnounced'
  BY <1>2 DEF UnderstoodAsAnnounced
<1>6. ASSUME NEW h \in {"press", "open", "close"} \cap handlers,
             made = "factory", kind = "Cover" => {"open", "close"} \subseteq handlers,
             c = Wanted(h), Wanted("open") # Null,
             h = "close" => Wanted("open") # Wanted("close")
      PROVE  Outcome(c) = h
  <2>1. h \in Flat(kind) /\ h # "stop" /\ cfg[h] = c
    BY <1>3, <1>6 DEF ConfigInv
  <2>2. CASE kind = "Button"
    <3>1. h = "press"
      BY <1>3, <2>2 DEF Handlers
    <3> QED BY <2>1, <2>2, <3>1, OutcomeFacts
  <2>3. CASE kind = "Cover"
    <3>1. /\ "open" \in handlers /\ "open" \in Flat(kind) /\ "open" \in Fields
          /\ h \in {"open", "close"}
      BY <1>3, <1>6, <2>3, FieldFacts DEF Handlers
    <3>2. cfg["open"] = Wanted("open") /\ cfg["open"] \in Strings \cup {Absent, Null}
      BY <1>6, <3>1 DEF ConfigInv
    <3>3. Wanted("open") # Absent
      BY <3>1 DEF Wanted
    <3>4. Readable("open")
      BY <1>6, <3>2, <3>3 DEF Readable
    <3> QED BY <1>6, <2>1, <2>3, <3>1, <3>2, <3>4, OutcomeFacts
  <2> QED BY <2>2, <2>3 DEF Commands
<1>7. CommandsObeyed'
  <2>1. Wanted("open")' = Wanted("open") /\ Wanted("close")' = Wanted("close")
        /\ Wanted("press")' = Wanted("press")
    BY <1>1 DEF Wanted
  <2>2. \A h \in {"press", "open", "close"} : h # "throws"
    OBVIOUS
  <2> QED BY <1>1, <1>2, <1>6, <2>1, <2>2 DEF CommandsObeyed
<1> QED BY <1>1, <1>2, <1>4, <1>5, <1>7

(* Every step preserves the calls' part of the invariant.                  *)
LEMMA CallsStep == ConfigInv /\ CallsInv /\ [Next]_vars => CallsInv'
<1> SUFFICES ASSUME ConfigInv, CallsInv, [Next]_vars PROVE CallsInv'
  OBVIOUS
<1> DEFINE frame == UNCHANGED <<kind, made, cfg, handlers, asked>>
<1>0. Absent \in Strings \cup States \cup {Absent}
  OBVIOUS
<1>1. ASSUME out' = Nothing, UNCHANGED <<kind, subscribed>>,
             phase' \in {"building", "created", "running", "thrown"}
      PROVE  CallsInv'
  BY <1>1 DEF CallsInv, Nothing, ConfiguredNeverThrows, UnderstoodAsAnnounced, CommandsObeyed
<1>2. CASE \/ \E f \in Flat(kind) \cup Nested :
                \E v \in Values[f] \cup {Null} : Set(f, v)
           \/ \E d \in Devices : SetDevice(d)
           \/ \E h \in Handlers(kind) : On(h)
           \/ Create \/ AsyncRun
  BY <1>1, <1>2 DEF Set, SetDevice, On, Create, AsyncRun, CallsInv
<1>3. ASSUME NEW b \in BOOLEAN, Call("availability", b, UpdateAvailability(b)), frame,
             phase # "building", phase' = phase,
             subscribed' = subscribed \/ subscribed' = (subscribed \/ Commands(kind))
      PROVE  CallsInv'
  <2>1. /\ out'.payload \in Strings \cup States \cup {Absent} /\ out'.op = "availability"
        /\ ConfiguredNeverThrows' /\ UnderstoodAsAnnounced' /\ CommandsObeyed'
    BY <1>3, AvailabilityCall
  <2>2. subscribed' \in BOOLEAN /\ (subscribed' => Commands(kind))
    <3>1. subscribed \in BOOLEAN /\ (subscribed => Commands(kind))
      BY DEF CallsInv
    <3>2. CASE subscribed' = subscribed
      BY <3>1, <3>2
    <3>3. CASE subscribed' = (subscribed \/ Commands(kind))
      BY <3>1, <3>3, Zenon
    <3> QED BY <1>3, <3>2, <3>3
  <2>3. phase' \in {"created", "running", "thrown"}
    BY <1>3 DEF CallsInv
  <2> QED BY <1>3, <2>1, <2>2, <2>3, CallStep
<1>4. ASSUME NEW b \in BOOLEAN, AsyncUpdateAvailability(b) PROVE CallsInv'
  BY <1>3, <1>4 DEF AsyncUpdateAvailability
<1>5. CASE AsyncSetup
  <2>1. CASE /\ ~Commands(kind) \/ Readable("command_topic")
             /\ subscribed' = (subscribed \/ Commands(kind))
             /\ Call("availability", TRUE, UpdateAvailability(TRUE))
    BY <1>3, <1>5, <2>1 DEF AsyncSetup
  <2>2. CASE /\ Commands(kind) /\ ~Readable("command_topic")
             /\ Call("setup", Absent, Threw)
             /\ UNCHANGED subscribed
    <3>1. /\ out'.op = "setup" /\ out'.payload = Absent
          /\ UNCHANGED <<kind, made, cfg, handlers, phase, asked>> /\ phase # "building"
      BY <1>5, <2>2 DEF AsyncSetup, Call, Threw
    <3>2. "command_topic" \in Flat(kind)
      BY <2>2 DEF Flat
    <3>3. ConfiguredNeverThrows'
      BY <2>2, <3>1, <3>2, FactoryFacts DEF ConfiguredNeverThrows
    <3>4. UnderstoodAsAnnounced' /\ CommandsObeyed'
      BY <3>1 DEF UnderstoodAsAnnounced, CommandsObeyed
    <3> QED BY <1>0, <2>2, <3>1, <3>3, <3>4 DEF CallsInv
  <2> QED BY <1>5, <2>1, <2>2 DEF AsyncSetup
<1>6. ASSUME NEW s \in (IF kind = "BinarySensor" THEN BOOLEAN ELSE States), AsyncUpdateState(s)
      PROVE  CallsInv'
  <2>1. /\ HasState(kind) /\ Call("state", s, UpdateState(s)) /\ phase # "building"
        /\ UNCHANGED <<kind, made, cfg, handlers, phase, subscribed, asked>>
    BY <1>6 DEF AsyncUpdateState
  <2>2. /\ out'.payload \in Strings \cup States \cup {Absent} /\ out'.op = "state"
        /\ ConfiguredNeverThrows' /\ UnderstoodAsAnnounced' /\ CommandsObeyed'
    BY <2>1, StateCall
  <2> QED BY <2>1, <2>2 DEF CallsInv
<1>7. ASSUME NEW c \in Strings, Command(c) PROVE CallsInv'
  <2>1. /\ phase = "running" /\ Commands(kind)
        /\ UNCHANGED <<kind, made, cfg, handlers, subscribed, asked>>
    BY <1>7 DEF Command, CallsInv
  <2>2. /\ out'.payload = Absent /\ (out'.result = "throws" => phase' = "thrown")
        /\ phase' \in {"running", "thrown"}
        /\ ConfiguredNeverThrows' /\ UnderstoodAsAnnounced' /\ CommandsObeyed'
    BY <1>7, <2>1, CommandCall
  <2> QED BY <1>0, <2>1, <2>2 DEF CallsInv
<1>8. CASE UNCHANGED vars
  BY <1>8 DEF vars, CallsInv, ConfiguredNeverThrows, UnderstoodAsAnnounced, CommandsObeyed,
              Wanted, Contains
<1> QED BY <1>2, <1>4, <1>5, <1>6, <1>7, <1>8 DEF Next

(* The inductive invariant holds in every reachable state.                 *)
LEMMA Invariant == Spec => []IndInv
<1>1. IndInv /\ [Next]_vars => IndInv'
  BY ConfigStep, CallsStep DEF IndInv
<1> QED BY InitInv, <1>1, PTL DEF Spec
-----------------------------------------------------------------------------
(* Type correctness: a field in "availability" is there only in an object, *)
(* and an exception from a command leaves async_run().                     *)
THEOREM TypeCorrect == Spec => []TypeOK
<1>1. IndInv => TypeOK
  BY DEF IndInv, ConfigInv, CallsInv, TypeOK
<1> QED BY Invariant, <1>1, PTL

(* The order of the calls of a factory does not matter: every member is    *)
(* the last that was asked for, or the default.                            *)
THEOREM FactoryGivesWhatWasAsked == Spec => []ConfigAsAsked
<1>1. \A d : DOMAIN DeviceObject(d) = {n \in DOMAIN d : d[n] # ""}
  BY DEF DeviceObject
<1>2. ASSUME IndInv, made = "factory"
      PROVE  /\ \A f \in (Flat(kind) \cup Nested) \ {"stop"} : cfg[f] = Wanted(f)
             /\ asked["device"] # Absent => cfg["device"] = DeviceObject(asked["device"])
  BY <1>2 DEF IndInv, ConfigInv
<1>3. IndInv => ConfigAsAsked
  BY <1>1, <1>2 DEF ConfigAsAsked
<1> QED BY Invariant, <1>3, PTL

(* An entity of a factory that was configured in full never throws.        *)
THEOREM ConfiguredEntitiesDoNotThrow == Spec => []ConfiguredNeverThrows
<1>1. IndInv => ConfiguredNeverThrows
  BY DEF IndInv, CallsInv
<1> QED BY Invariant, <1>1, PTL

(* A published availability or binary state is understood by whoever reads *)
(* the discovery document.                                                 *)
THEOREM AnnouncementIsUnderstood == Spec => []UnderstoodAsAnnounced
<1>1. IndInv => UnderstoodAsAnnounced
  BY DEF IndInv, CallsInv
<1> QED BY Invariant, <1>1, PTL

(* A command with the payload that was asked for runs its handler, unless  *)
(* an earlier one in dispatch() has the same payload.                      *)
THEOREM CommandsAreObeyed == Spec => []CommandsObeyed
<1>1. IndInv => CommandsObeyed
  BY DEF IndInv, CallsInv
<1> QED BY Invariant, <1>1, PTL
=============================================================================
