---------------------------- MODULE SharedEntities ----------------------------
(***************************************************************************)
(* Entities on one SharedAsyncMqttConnection: the coroutine of each entity *)
(* (EntitySetup) drives a logical client of SharedConnection, while the    *)
(* pump, the other entities and the application act on the same physical   *)
(* client.  Every step here is a step of SharedConnection, or leaves its   *)
(* state alone.  Between the return of one call and the next call of the   *)
(* same coroutine the code does not suspend; the model lets other          *)
(* coroutines act there too.                                               *)
(***************************************************************************)
EXTENDS SharedConnection, EntitySetup

CONSTANTS
  KindOf,     \* KindOf[c]: the kind of the entity that owns logical client c
  TopicOf     \* TopicOf[c]: its command topic

(* What stage s sends.                                                     *)
Message(c, s) == IF s = "subscribe" THEN TopicOf[c]
                 ELSE IF QoS0(KindOf[c]) THEN "publish0" ELSE "publish"

(* An entity has one coroutine, which receives on its own client and sends *)
(* on it what the stages of its setup send.                                *)
ASSUME EntitiesAssumption ==
  /\ Readers = Clients /\ \A c \in Clients : Owner[c] = c
  /\ KindOf \in [Clients -> Kinds]
  /\ TopicOf \in [Clients -> Topics]
  /\ \A c \in Clients, s \in SetupStages : Message(c, s) \in Sends[c]

VARIABLES
  ent,        \* ent[c]: progress of the coroutine of async_setup and async_run
  announced   \* broker: the discovery documents it has

shared == vars
evars == <<vars, ent, announced>>

EntitiesTypeOK ==
  /\ SharedTypeOK
  /\ ent \in [Clients -> Progress]
  /\ announced \subseteq Clients
  /\ \A c \in Clients :
       /\ spc[c] # "idle" => ent[c].stage \in SetupStages
       /\ rpc[c] # "idle" => ent[c].stage = "recv"

EntitiesInit ==
  /\ Init
  /\ ent = [c \in Clients |-> NotSetUp]
  /\ announced = {}

Goes(c, p) == ent' = [ent EXCEPT ![c] = p]
-----------------------------------------------------------------------------
(* The application calls async_setup of an entity it has not closed; the   *)
(* client refuses its first send when the connection is closed.            *)
AsyncSetup(c) ==
  /\ ent[c].stage = "idle" /\ ~closed[c]
  /\ Send(c, Message(c, "discovery"))
  /\ Goes(c, BeginSetup(FALSE))
  /\ UNCHANGED announced

(* async_publish or async_subscribe of a stage; refused when closed.       *)
StageSend(c) ==
  /\ ent[c].stage \in SetupStages /\ spc[c] = "idle"
  /\ \/ /\ Send(c, Message(c, ent[c].stage))
        /\ UNCHANGED ent
     \/ /\ phys = "Closed"
        /\ Goes(c, SetupFails(ent[c]))
        /\ UNCHANGED shared
  /\ UNCHANGED announced

(* The reconnect that it waited for is over, and the client connected or   *)
(* closed.                                                                 *)
StageWoken(c) ==
  /\ SendWoken(c)
  /\ Goes(c, IF phys = "Connected" THEN ent[c] ELSE SetupFails(ent[c]))
  /\ UNCHANGED announced

StageAcked(c) ==
  /\ SendAcked(c)
  /\ announced' = IF ent[c].stage = "discovery" THEN announced \cup {c} ELSE announced
  /\ UNCHANGED ent

StageDone(c) ==
  /\ SendDone(c)
  /\ Goes(c, Advance(KindOf[c], TRUE, ent[c]))
  /\ UNCHANGED announced

StageFails(c) ==
  /\ SendFails(c)
  /\ Goes(c, SetupFails(ent[c]))
  /\ UNCHANGED announced

(* async_run, which the application starts when the setup succeeded.       *)
AsyncRun(c) ==
  /\ ent[c].stage = "idle" /\ ent[c].ready
  /\ Goes(c, Receive)
  /\ UNCHANGED <<shared, announced>>

(* Entity::async_recv calls and resumes client_.async_recv(): a packet is  *)
(* dispatched to the handlers, an error is handled.                        *)
EntityRecv(c) ==
  /\ ent[c].stage = "recv"
  /\ AsyncRecv(c) \/ RecvWoken(c)
  /\ Goes(c, IF rpc'[c] = "wait" \/ Result(c) \in Topics THEN Receive
             ELSE HandleErr(Result(c)))
  /\ UNCHANGED announced

(* async_close of the entity detaches its logical client.                  *)
EntityClose(c) ==
  /\ Detach(c)
  /\ UNCHANGED <<ent, announced>>

(* The application connects before it sets up its entities; what was set   *)
(* up before is lost.                                                      *)
Connect ==
  /\ \A c \in Clients : closed[c] \/ ent[c].stage = "idle"
  /\ AsyncConnect
  /\ ent' = [c \in Clients |-> IF ent[c].stage = "idle" THEN NotSetUp ELSE ent[c]]
  /\ UNCHANGED announced

(* The rest of the application, the pump and the broker.                   *)
Environment ==
  /\ AsyncClose \/ Drop \/ PumpStart("run") \/ PumpStep
  /\ UNCHANGED <<ent, announced>>

StageStep(c) ==
  StageSend(c) \/ StageWoken(c) \/ StageAcked(c) \/ StageDone(c) \/ StageFails(c)

EntitiesNext ==
  \/ Connect \/ Environment
  \/ \E c \in Clients :
       \/ AsyncSetup(c) \/ StageStep(c) \/ AsyncRun(c) \/ EntityRecv(c)
       \/ EntityClose(c)

EntitiesSpec == EntitiesInit /\ [][EntitiesNext]_evars

(* Coroutines resume and sends complete; the pump notices a broken         *)
(* transport and a closed client; the reconnect loop ends.                 *)
EntitiesFairness ==
  /\ \A c \in Clients : WF_evars(StageStep(c)) /\ WF_evars(EntityRecv(c))
  /\ WF_evars(Environment /\ (PumpLoses \/ PumpReset \/ PumpGaveUp \/ PumpClosed))

FairEntitiesSpec == EntitiesSpec /\ EntitiesFairness
-----------------------------------------------------------------------------
(* The entity receives, on a session with the broker, and no error waits   *)
(* in its queue that will make it set up again.                            *)
Running(c) ==
  /\ ~closed[c] /\ ent[c].stage = "recv"
  /\ link = "up" /\ Rng(queue[c]) \cap Errors = {}

(* Packets on the command topic of c reach its queue.                      *)
Hears(c) == TopicOf[c] \in subs \cap Entries(topics[c]) /\ c \in Registered

(* An entity that waits for commands hears them: whatever setups, replays, *)
(* drops and closes of several entities interleave, none of them waits for *)
(* commands that cannot come.                                              *)
CommandsCovered ==
  \A c \in Clients : Running(c) /\ Commands(KindOf[c]) => Hears(c)

(* The same of discovery (docs/errors-and-reconnect.md: "This republishes  *)
(* discovery"): an entity that runs is known to Home Assistant.            *)
DiscoveryCovered == \A c \in Clients : Running(c) => c \in announced

(* Setup declares a command entity available only when commands reach it,  *)
(* or when it is bound to set up once more.                                *)
OnlineAfterSubscribe ==
  [][\A c \in Clients :
       StageAcked(c) /\ ent[c].stage = "availability"
         /\ Commands(KindOf[c]) /\ ~closed[c]
         => Hears(c) \/ Rng(queue[c]) \cap Errors # {}]_evars

(* When the link stays up and the pump runs, an entity that keeps running  *)
(* hears its commands for good.                                            *)
StableLinkRestores ==
  \A c \in {d \in Clients : Commands(KindOf[d])} :
    <>[](link = "up" /\ pump = "run" /\ ~looping /\ ~closed[c]
           /\ ent[c].stage # "idle")
      => <>[](ent[c].stage = "recv" /\ Hears(c))

(* Closing an entity ends its run: tests/integration_tests/entity.cpp      *)
(* expects Disconnected from the receive of an entity that is closed.      *)
ClosedEntityStops ==
  \A c \in Clients : closed[c] ~> (ent[c].stage = "idle")
=============================================================================
