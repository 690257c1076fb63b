--------------------------- MODULE StreamContexts ---------------------------
(***************************************************************************)
(* The context managers of mlu/__init__.py and mlu/graphs.py that change    *)
(* the current device and the current streams of one thread: device,        *)
(* StreamContext, and graph, which captures on a stream of its own.         *)
(*                                                                         *)
(* A manager is an object that keeps what it must put back in its fields.   *)
(* It may be used again after it was left, and other managers may be        *)
(* entered meanwhile; it is not entered again before it was left.  The body *)
(* of a context may select a device itself, but for the body of a capture.  *)
(* To set a stream also selects its device (external).  Contexts of no      *)
(* stream and of no device do nothing and are left out.                     *)
(***************************************************************************)
EXTENDS Naturals, Sequences

CONSTANTS
    Devices,
    Managers,     \* records [kind, on]: on is a device, or a stream <<device, number>>
    MaxDepth,     \* bound: contexts entered and not left
    MaxSteps      \* bound: steps

ASSUME DepthAssumption == MaxDepth \in Nat
ASSUME DevicesAssumption == 0 \in Devices
ASSUME ManagersAssumption ==
    \A m \in Managers : \/ m.kind = "device" /\ m.on \in Devices
                        \/ m.kind \in {"stream", "capture"} /\ m.on \in Devices \X Nat

VARIABLES
    here,         \* the current device, and the current stream of each
    fields,       \* of each manager
    entered,      \* contexts that were not left, the last one first, and what was current before
    leaked,       \* an error of a capture kept its stream from being left
    steps

contextVars == <<here, fields, entered, leaked, steps>>

CurrentStream == here.streams[here.device]
DeviceOf(stream) == stream[1]
Select(at, device) == [at EXCEPT !.device = device]
SetStreamOnly(at, stream) == [at EXCEPT !.streams[DeviceOf(stream)] = stream]
SetStream(at, stream) ==
    [device |-> DeviceOf(stream), streams |-> [at.streams EXCEPT ![DeviceOf(stream)] = stream]]

Stepping == steps < MaxSteps /\ steps' = steps + 1
Push(m) == entered' = <<[manager |-> m, before |-> here]>> \o entered
Pop == entered' = Tail(entered)

-----------------------------------------------------------------------------
EnterDevice(m) ==
    /\ m.kind = "device"
    /\ fields' = [fields EXCEPT ![m].previous = here.device]
    /\ here' = Select(here, fields[m].index)

\* The object remembers the device it leaves, and selects that one if it is used again.
LeaveDevice(m) ==
    /\ m.kind = "device"
    /\ fields' = [fields EXCEPT ![m].index = here.device]
    /\ here' = Select(here, fields[m].previous)

EnterStream(m) ==
    /\ fields' = [fields EXCEPT ![m].source = CurrentStream,
                                ![m].destination = IF DeviceOf(CurrentStream) # DeviceOf(m.on)
                                                   THEN here.streams[DeviceOf(m.on)] ELSE @]
    /\ here' = SetStream(here, m.on)

BackSourceFirst(m) ==
    IF DeviceOf(fields[m].source) # DeviceOf(m.on)
    THEN SetStream(SetStream(here, fields[m].source), fields[m].destination)
    ELSE SetStream(here, fields[m].source)
Back(m) ==
    IF DeviceOf(fields[m].source) # DeviceOf(m.on)
    THEN SetStream(SetStream(here, fields[m].destination), fields[m].source)
    ELSE SetStream(here, fields[m].source)

LeaveStream(m) == here' = Back(m) /\ UNCHANGED fields

-----------------------------------------------------------------------------
(* One with statement.                                                      *)

Enter(m) ==
    /\ Stepping
    /\ Len(entered) < MaxDepth
    /\ \A k \in DOMAIN entered : entered[k].manager # m
    /\ IF m.kind = "device" THEN EnterDevice(m) ELSE EnterStream(m)
    /\ Push(m)
    /\ UNCHANGED leaked

\* capture_begin raises: a context that was not entered is not left.
BeginFails(m) ==
    /\ Stepping
    /\ m.kind = "capture"
    /\ \A k \in DOMAIN entered : entered[k].manager # m
    /\ EnterStream(m)
    /\ leaked' = TRUE
    /\ UNCHANGED entered

Leave ==
    LET m == Head(entered).manager
    IN /\ entered # <<>>
       /\ Stepping
       /\ IF m.kind = "device" THEN LeaveDevice(m) ELSE LeaveStream(m)
       /\ Pop
       /\ UNCHANGED leaked

\* capture_end raises: stream_ctx.__exit__ is not called.
EndFails ==
    /\ entered # <<>>
    /\ Stepping
    /\ Head(entered).manager.kind = "capture"
    /\ leaked' = TRUE
    /\ Pop
    /\ UNCHANGED <<here, fields>>

SelectDevice(d) ==
    /\ Stepping
    /\ entered # <<>> => Head(entered).manager.kind # "capture"
    /\ here' = Select(here, d)
    /\ UNCHANGED <<fields, entered, leaked>>

ContextInit ==
    /\ here = [device |-> 0, streams |-> [d \in Devices |-> <<d, 0>>]]
    /\ fields = [m \in Managers |->
                   IF m.kind = "device" THEN [index |-> m.on, previous |-> 0]
                   ELSE [source |-> <<0, 0>>, destination |-> <<0, 0>>]]
    /\ entered = <<>>
    /\ leaked = FALSE
    /\ steps = 0

ContextNext ==
    \/ \E m \in Managers : Enter(m) \/ BeginFails(m)
    \/ Leave
    \/ EndFails
    \/ \E d \in Devices : SelectDevice(d)

ContextSpec == ContextInit /\ [][ContextNext]_contextVars

-----------------------------------------------------------------------------
(* Properties.                                                              *)

ContextTypeOK ==
    /\ here.device \in Devices
    /\ \A d \in Devices : DeviceOf(here.streams[d]) = d
    /\ Len(entered) <= MaxDepth
    /\ leaked \in BOOLEAN

\* A context that is left puts back the current device and the current stream of
\* every device, whatever contexts on whatever devices were entered in between, and
\* whether its body ended or raised; errors of a capture excepted (graphs.py:260).
ContextsRestore ==
    [][Len(entered') < Len(entered) /\ ~leaked' => here' = Head(entered).before]_contextVars

\* A capture ends on the stream it began on.
CapturesEndOnTheirStream ==
    entered # <<>> /\ Head(entered).manager.kind = "capture" /\ ~leaked => CurrentStream = Head(entered).manager.on
=============================================================================
