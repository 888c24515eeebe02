------------------------------ MODULE MCServer ------------------------------
(***************************************************************************)
(* The broker's registry, and parts of the server and the page that do not *)
(* wait for each other, checked side by side.  A behaviour is one of       *)
(* Registry, ViewerFlow, ViewerAttach, ViewerControl, MemoryRelay (mail    *)
(* that expires), SessionKill, BrokerLink or TerminalView, as `scene`      *)
(* says; the registry of the other scenes stays empty and the other        *)
(* variables keep the value Parked.                                        *)
(***************************************************************************)
EXTENDS Registry

CONSTANTS None, Parked, v1, v2, v3

VARIABLES
    scene,
    made, entry, pump, down, up, page,
    pg, sv, wd, wu, be, hist,
    current, ent, sock, waits, stranded,
    st, now, todo, last, inflight, sent, peerHas, placed, left,
    session, signalled, requests, answers, event, call, cached, kills, told, missed, knew,
    daemon, client, sup, probe,
    view

registryVars == vars
flowVars == <<made, entry, pump, down, up, page>>
attachVars == <<pg, sv, wd, wu, be, hist>>
controlVars == <<current, ent, sock, waits, stranded>>
relayVars == <<st, now, todo, last, inflight, sent, peerHas, placed, left>>
killVars == <<session, signalled, requests, answers, event, call, cached, kills, told, missed, knew>>
linkVars == <<daemon, client, sup, probe>>

(* The requested name collides with the first generated one.              *)
CollidingName == {<<"session", 1>>}

Flow == INSTANCE ViewerFlow
    WITH Window <- 3, MaxPending <- 3, CoalesceMax <- 2, SmallChunk <- 1,
         AckEvery <- 2, RetryMax <- 1, ChunkMax <- 2, ByteMax <- 7

(* Without a prefill, with one, and in place of another viewer; with a     *)
(* session the server knows and one it has to ask the broker for.          *)
Scene(mode, taken, known, layouts, inputs, outputs) ==
    [mode |-> mode, taken |-> taken, known |-> known, size |-> 1, was |-> 2,
     layouts |-> layouts, inputs |-> inputs, outputs |-> outputs]
AttachScenes ==
    {Scene("none", FALSE, TRUE, 1, 1, 0), Scene("viewport", FALSE, FALSE, 1, 0, 0),
     Scene("full", FALSE, TRUE, 2, 0, 0), Scene("full", FALSE, FALSE, 1, 1, 1),
     Scene("viewport", TRUE, TRUE, 0, 1, 0), Scene("full", TRUE, TRUE, 1, 0, 0)}

Attach == INSTANCE ViewerAttach WITH Sizes <- {1, 2}, Scenes <- AttachScenes

Control == INSTANCE ViewerControl WITH Viewers <- {v1, v2, v3}

(* An agent v1 that a new generation v3 replaces forwards m to the peer v2 *)
(* and writes n to itself.                                                 *)
First == <<v1, v1, 1>>
Second == <<v1, v3, 1>>
Envelope(id, target) == [id |-> id, source |-> First, target |-> target, created |-> 1]

Relay == INSTANCE MemoryRelay
    WITH Sessions <- {v1}, Generations <- {v1, v3}, Endpoints <- {First, Second},
         Ids <- {"m", "n"}, Peers <- {v2},
         Envelopes <- {Envelope("m", v2), Envelope("n", First)},
         ActiveItems <- 2, MailboxItems <- 2, PeerItems <- 1, Receipts <- 2,
         Registrations <- 2, Routes <- 1, LeaseMs <- 1, RetryMs <- 1, DeadlineMs <- 1,
         ReceiptMs <- 3, ClockSkewMs <- 1, MaxAttempts <- 2, MaterialGap <- 2,
         MaintenanceLimit <- 2, TimeMax <- 3, TokenMax <- 2

Killing == INSTANCE SessionKill WITH Callers <- {v1, v2}, entry <- kills

Link == INSTANCE BrokerLink
    WITH Kinds <- {"v1", "v2", "pre_hello", "incompatible"}, Breaker <- 2, ChangeMax <- 3

View == INSTANCE TerminalView

NoRegistry == Init /\ request = [c \in Calls |-> Anonymous]
NoFlow ==
    /\ made = Parked /\ entry = Parked /\ pump = Parked /\ down = Parked
    /\ up = Parked /\ page = Parked
NoAttach ==
    pg = Parked /\ sv = Parked /\ wd = Parked /\ wu = Parked /\ be = Parked /\ hist = Parked
NoControl ==
    /\ current = Parked /\ ent = Parked /\ sock = Parked /\ waits = Parked
    /\ stranded = Parked
NoRelay ==
    /\ st = Parked /\ now = Parked /\ todo = Parked /\ last = Parked /\ inflight = Parked
    /\ sent = Parked /\ peerHas = Parked /\ placed = Parked /\ left = Parked

NoKill ==
    /\ session = Parked /\ signalled = Parked /\ requests = Parked /\ answers = Parked
    /\ event = Parked /\ call = Parked /\ cached = Parked /\ kills = Parked
    /\ told = Parked /\ missed = Parked /\ knew = Parked
NoLink == daemon = Parked /\ client = Parked /\ sup = Parked /\ probe = Parked
NoView == view = Parked

ServerInit ==
    \/ /\ scene = "registry" /\ Init
       /\ NoFlow /\ NoAttach /\ NoControl /\ NoRelay /\ NoKill /\ NoLink /\ NoView
    \/ /\ scene = "flow" /\ Flow!Init
       /\ NoRegistry /\ NoAttach /\ NoControl /\ NoRelay /\ NoKill /\ NoLink /\ NoView
    \/ /\ scene = "attach" /\ Attach!Init
       /\ NoRegistry /\ NoFlow /\ NoControl /\ NoRelay /\ NoKill /\ NoLink /\ NoView
    \/ /\ scene = "control" /\ Control!Init
       /\ NoRegistry /\ NoFlow /\ NoAttach /\ NoRelay /\ NoKill /\ NoLink /\ NoView
    \/ /\ scene = "relay" /\ Relay!Init
       /\ NoRegistry /\ NoFlow /\ NoAttach /\ NoControl /\ NoKill /\ NoLink /\ NoView
    \/ /\ scene = "kill" /\ Killing!Init
       /\ NoRegistry /\ NoFlow /\ NoAttach /\ NoControl /\ NoRelay /\ NoLink /\ NoView
    \/ /\ scene = "link" /\ Link!Init
       /\ NoRegistry /\ NoFlow /\ NoAttach /\ NoControl /\ NoRelay /\ NoKill /\ NoView
    \/ /\ scene = "view" /\ View!Init
       /\ NoRegistry /\ NoFlow /\ NoAttach /\ NoControl /\ NoRelay /\ NoKill /\ NoLink

ServerNext ==
    /\ UNCHANGED scene
    /\ \/ /\ scene = "registry" /\ Next
          /\ UNCHANGED <<flowVars, attachVars, controlVars, relayVars, killVars, linkVars,
                         view>>
       \/ /\ scene = "flow" /\ Flow!Next
          /\ UNCHANGED <<registryVars, attachVars, controlVars, relayVars, killVars, linkVars,
                         view>>
       \/ /\ scene = "attach" /\ Attach!Next
          /\ UNCHANGED <<registryVars, flowVars, controlVars, relayVars, killVars, linkVars,
                         view>>
       \/ /\ scene = "control" /\ Control!Next
          /\ UNCHANGED <<registryVars, flowVars, attachVars, relayVars, killVars, linkVars,
                         view>>
       \/ /\ scene = "relay" /\ Relay!Next
          /\ UNCHANGED <<registryVars, flowVars, attachVars, controlVars, killVars, linkVars,
                         view>>
       \/ /\ scene = "kill" /\ Killing!Next
          /\ UNCHANGED <<registryVars, flowVars, attachVars, controlVars, relayVars, linkVars,
                         view>>
       \/ /\ scene = "link" /\ Link!Next
          /\ UNCHANGED <<registryVars, flowVars, attachVars, controlVars, relayVars, killVars,
                         view>>
       \/ /\ scene = "view" /\ View!Next
          /\ UNCHANGED <<registryVars, flowVars, attachVars, controlVars, relayVars, killVars,
                         linkVars>>

(* The fairness of each module, in its scene.                              *)
ServerSpec ==
    /\ ServerInit
    /\ [][ServerNext]_<<scene, registryVars, flowVars, attachVars, controlVars, relayVars,
                        killVars, linkVars, view>>
    /\ \A c \in Calls :
          /\ WF_registryVars(scene = "registry" /\ (SpawnOk(c) \/ SpawnFail(c)))
          /\ WF_registryVars(scene = "registry" /\ (Commit(c) \/ PublishStarted(c) \/ Reconcile(c)))
          /\ WF_registryVars(scene = "registry" /\ AnnounceExit(c))
    /\ WF_registryVars(scene = "registry" /\ ReaperTask)
    /\ WF_registryVars(scene = "registry" /\ Purge)
    /\ WF_flowVars(scene = "flow" /\ Flow!CoalesceTimer)
    /\ WF_flowVars(scene = "flow" /\ Flow!ReceiveAck)
    /\ WF_flowVars(scene = "flow" /\ Flow!ReceiveOutput)
    /\ WF_flowVars(scene = "flow" /\ Flow!AckTimer)
    /\ WF_flowVars(scene = "flow" /\ Flow!ExitDrainTimer)
    /\ WF_flowVars(scene = "flow" /\ Flow!ReceiveClose)
    /\ WF_relayVars(scene = "relay" /\ Relay!Maintenance)
    /\ WF_relayVars(scene = "relay" /\ Relay!MaintenanceStep)
    /\ SF_relayVars(scene = "relay" /\ Relay!Tick)
    /\ SF_relayVars(scene = "relay" /\ Relay!FetchEnds)
    /\ WF_linkVars(scene = "link" /\ Link!HandleConnect)
    /\ WF_linkVars(scene = "link" /\ Link!Refused)
    /\ WF_linkVars(scene = "link" /\ Link!Reconnect)
    /\ WF_linkVars(scene = "link" /\ Link!Verified)
    /\ WF_linkVars(scene = "link" /\ Link!Closes)
    /\ WF_linkVars(scene = "link" /\ Link!ProbeStep("startup"))
    /\ WF_linkVars(scene = "link" /\ Link!ProbeStep("watchdog"))
    /\ WF_linkVars(scene = "link" /\ Link!WatchdogTick)
    /\ WF_view(scene = "view" /\ View!Deliver)
    /\ WF_view(scene = "view" /\ View!SettleTimer)
    /\ WF_view(scene = "view" /\ View!FallbackTimer)
    /\ WF_view(scene = "view" /\ View!Age)
    /\ WF_view(scene = "view" /\ View!Quiet)
    /\ WF_view(scene = "view" /\ View!Flush)
    /\ WF_view(scene = "view" /\ View!Reveal)

-----------------------------------------------------------------------------
(* The viewer gets the session's bytes in order and without a gap, also    *)
(* after an exit that was drained in time (ViewerFlow).                    *)
OutputExact == scene = "flow" => Flow!OutputExact

(* Output never stalls behind the window or a timer (ViewerFlow).          *)
FlowResumes ==
    []<>(scene # "flow" \/ ~page.open \/ (Len(page.got) = made /\ ~entry.draining))

(* When nothing is under way, the page, the server and the PTY agree on    *)
(* the size (ViewerAttach).                                                *)
SizesAgree == scene = "attach" => Attach!SizesAgree

(* What is typed and put out during an attach is neither lost nor          *)
(* reordered (ViewerAttach).                                               *)
InputAndOutputKept == scene = "attach" => Attach!InputAndOutputKept

(* One viewer owns a session (ViewerControl).                              *)
OneOwner == scene = "control" => Control!OneOwner

(* A viewer that leaves ends its own entry only (ViewerControl).           *)
LeaverEndsOwnEntry == [][scene = "control" => Control!LeaverEndsOwnEntryStep]_controlVars

(* Nothing the relay holds stays overdue (MemoryRelay).                    *)
NothingOverdue == []<>(scene # "relay" \/ ~Relay!Overdue)

(* An exit is told once, with the right reason (SessionKill).              *)
ExitToldRight == scene = "kill" => Killing!ExitToldRight

(* A daemon that stays up and compatible is found again (BrokerLink).      *)
Recovers == []<>(scene # "link" \/ daemon.state # "up" \/ daemon.kind = "incompatible" \/ Link!Ready)

(* The user never sees a prefill being painted (TerminalView).             *)
NoProgressivePaint == scene = "view" => View!NoProgressivePaint

(* A connected terminal that has its prefill is revealed (TerminalView).   *)
Reveals == []<>(scene # "view" \/ View!Presented)

(* A shown terminal is not left without a connection, a parked one starts  *)
(* none (TerminalView).                                                    *)
ConnectsWhenShown == [][scene = "view" => View!ConnectsWhenShownStep]_view
=============================================================================
