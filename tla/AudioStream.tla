---------------------------- MODULE AudioStream ----------------------------
(***************************************************************************)
(* The voice recordings of the device: audio_stream.c.                     *)
(*                                                                         *)
(* Three tasks share two flags and no lock.  audio_stream_task obeys the   *)
(* RECORD and STOP commands; vad_task starts a recording by itself when it *)
(* hears speech; http_stream_task waits at the gate, records, sends what   *)
(* it recorded to the backend and toggles the door when the backend        *)
(* recognises the speaker.  Setting streaming_enabled and giving the gate  *)
(* are two steps, and so are testing the flag and setting it.              *)
(*                                                                         *)
(* Simplifications: the samples are abstracted to whether the buffer is    *)
(* full; the raw stream always delivers; xTaskCreate succeeds; the voice   *)
(* tasks exist (voice_detection_enable).                                   *)
(***************************************************************************)
EXTENDS Naturals, Sequences

CONSTANT QueueLength  \* length of audio_stream_queue (10)

ASSUME QueueAssumption == QueueLength \in Nat

VARIABLES
    queue,      \* audio_stream_queue: commands sent, oldest first
    streaming,  \* streaming_enabled
    recording,  \* recording_active
    gate,       \* stream_gate, a binary semaphore: TRUE is given
    control,    \* where audio_stream_task is
    vad,        \* where vad_task is
    http,       \* where http_stream_task is
    full,       \* pcm_bytes_sent has reached min_bytes
    idle,       \* idle_blink_task
    fast,       \* fast_blink_task: TRUE when the handle names a task
    leaked,     \* a fast_blink task runs that no handle names
    starved,    \* history: the 4 KiB buffer could not be allocated
    unsent,     \* history: a connection could not be opened
    raced       \* history: see Back below

lights == <<idle, fast, leaked>>
past   == <<starved, unsent, raced>>
vars   == <<queue, streaming, recording, gate, control, vad, http, full,
            lights, past>>

HttpLabels == {"gate", "settle", "allocate", "record", "send", "await", "done"}

QueueType == queue \in Seq({"START", "STOP"}) /\ Len(queue) <= QueueLength

FlagTypes ==
    /\ streaming \in BOOLEAN /\ recording \in BOOLEAN /\ gate \in BOOLEAN
    /\ full \in BOOLEAN /\ fast \in BOOLEAN /\ leaked \in BOOLEAN
    /\ starved \in BOOLEAN /\ unsent \in BOOLEAN /\ raced \in BOOLEAN

PlaceTypes ==
    /\ control \in {"receive", "enable", "give"}
    /\ vad \in {"watch", "listen", "give"}
    /\ http \in HttpLabels
    /\ idle \in {"none", "running", "suspended"}

TypeOK == QueueType /\ FlagTypes /\ PlaceTypes

(* audio_stream_init, called once the MQTT client has been started. *)
Init ==
    /\ queue = <<>>
    /\ streaming = FALSE
    /\ recording = FALSE
    /\ gate = FALSE
    /\ control = "receive"
    /\ vad = "watch"
    /\ http = "gate"
    /\ full = FALSE
    /\ idle \in {"none", "running"}
    /\ fast = FALSE
    /\ leaked = FALSE
    /\ starved = FALSE
    /\ unsent = FALSE
    /\ raced = FALSE

-----------------------------------------------------------------------------
(* The gate is, or is about to be, given. *)
Due == gate \/ control = "give" \/ vad = "give"

(***************************************************************************)
(* http_stream_task goes back to wait at the gate.  The history variable   *)
(* raced says that streaming_enabled was set while it was set already, and *)
(* that the gate given twice has not been used up since: it is over when   *)
(* the task comes back to a gate that nobody has given or is giving.       *)
(***************************************************************************)
Back == http' = "gate" /\ raced' = (raced /\ Due)

-----------------------------------------------------------------------------
(* The environment. *)

(* audio_stream_send_cmd, from the MQTT and serial tasks: a command that   *)
(* finds the queue full is lost.                                           *)
Send(command) ==
    /\ Len(queue) < QueueLength
    /\ queue' = Append(queue, command)
    /\ UNCHANGED <<streaming, recording, gate, control, vad, http, full, lights, past>>

(* The first MQTT_EVENT_CONNECTED creates the idle blink. *)
Connected ==
    /\ idle = "none"
    /\ idle' = "running"
    /\ UNCHANGED <<queue, streaming, recording, gate, control, vad, http, full,
                   fast, leaked, past>>

-----------------------------------------------------------------------------
(* audio_stream_task *)

(* The test of START and its assignment are not one step. *)
ReceiveStart ==
    /\ control = "receive"
    /\ queue # <<>> /\ Head(queue) = "START"
    /\ queue' = Tail(queue)
    /\ control' = IF streaming THEN "receive" ELSE "enable"
    /\ UNCHANGED <<streaming, recording, gate, vad, http, full, lights, past>>

ReceiveStop ==
    /\ control = "receive"
    /\ queue # <<>> /\ Head(queue) = "STOP"
    /\ queue' = Tail(queue)
    /\ recording' = FALSE
    /\ UNCHANGED <<streaming, gate, control, vad, http, full, lights,
                   starved, unsent, raced>>

Enable ==
    /\ control = "enable"
    /\ streaming' = TRUE
    /\ raced' = (raced \/ streaming)
    /\ control' = "give"
    /\ UNCHANGED <<queue, recording, gate, vad, http, full, lights,
                   starved, unsent>>

(* Faulty variant: the flag is set and the gate is forgotten. *)
ForgetGate ==
    /\ control = "give"
    /\ control' = "receive"
    /\ UNCHANGED <<queue, streaming, recording, gate, vad, http, full, lights, past>>

Give ==
    /\ control = "give"
    /\ gate' = TRUE
    /\ control' = "receive"
    /\ UNCHANGED <<queue, streaming, recording, vad, http, full, lights, past>>

-----------------------------------------------------------------------------
(* vad_task: the flag is tested before a frame is read (30 to 200 ms) and  *)
(* set when the frame completes six frames of speech.                      *)
VadListens ==
    /\ vad = "watch"
    /\ ~streaming
    /\ vad' = "listen"
    /\ UNCHANGED <<queue, streaming, recording, gate, control, http, full, lights, past>>

VadHearsNothing ==
    /\ vad = "listen"
    /\ vad' = "watch"
    /\ UNCHANGED <<queue, streaming, recording, gate, control, http, full, lights, past>>

VadTriggers ==
    /\ vad = "listen"
    /\ streaming' = TRUE
    /\ raced' = (raced \/ streaming)
    /\ vad' = "give"
    /\ UNCHANGED <<queue, recording, gate, control, http, full, lights,
                   starved, unsent>>

VadGives ==
    /\ vad = "give"
    /\ gate' = TRUE
    /\ vad' = "watch"
    /\ UNCHANGED <<queue, streaming, recording, control, http, full, lights, past>>

-----------------------------------------------------------------------------
(* http_stream_task *)

TakeGate ==
    /\ http = "gate"
    /\ gate
    /\ gate' = FALSE
    /\ http' = "settle"
    /\ UNCHANGED <<queue, streaming, recording, control, vad, full, lights,
                   starved, unsent, raced>>

(* The HTTP client or the audio buffer cannot be had. *)
NoClientOrBuffer ==
    /\ http = "settle"
    /\ streaming' = FALSE
    /\ Back
    /\ UNCHANGED <<queue, recording, gate, control, vad, full, lights,
                   starved, unsent>>

(* Faulty variant: the blink is suspended without a look at its handle.    *)
(* vTaskSuspend takes a null handle for the task that calls it.            *)
StartRecordingUnguarded ==
    /\ http = "settle"
    /\ recording' = TRUE
    /\ full' = FALSE
    /\ idle' = IF idle = "none" THEN "none" ELSE "suspended"
    /\ http' = IF idle = "none" THEN "suspended" ELSE "allocate"
    /\ UNCHANGED <<queue, streaming, gate, control, vad, fast, leaked, past>>

StartRecording ==
    /\ http = "settle"
    /\ recording' = TRUE
    /\ full' = FALSE
    /\ idle' = IF idle = "none" THEN "none" ELSE "suspended"
    /\ http' = "allocate"
    /\ UNCHANGED <<queue, streaming, gate, control, vad, fast, leaked, past>>

(* The second allocation fails: the recording flag alone is cleared. *)
NoSmallBuffer ==
    /\ http = "allocate"
    /\ recording' = FALSE
    /\ starved' = TRUE
    /\ Back
    /\ UNCHANGED <<queue, streaming, gate, control, vad, full, lights, unsent>>

Allocated ==
    /\ http = "allocate"
    /\ http' = "record"
    /\ UNCHANGED <<queue, streaming, recording, gate, control, vad, full, lights, past>>

(* The read that fills the buffer; those that do not change nothing here.  *)
(* A read begun before a STOP can still complete the buffer.               *)
FillBuffer ==
    /\ http = "record"
    /\ ~full
    /\ full' = TRUE
    /\ UNCHANGED <<queue, streaming, recording, gate, control, vad, http, lights, past>>

(* The loop ends, and a fast blink starts, indicating that the device      *)
(* waits for the server.                                                   *)
EndRecording ==
    /\ http = "record"
    /\ full \/ ~recording
    /\ http' = "send"
    /\ leaked' = (leaked \/ fast)
    /\ fast' = TRUE
    /\ UNCHANGED <<queue, streaming, recording, gate, control, vad, full, idle, past>>

(* Faulty variant: the branch keeps streaming enabled. *)
OpenFailsEnabled ==
    /\ http = "send"
    /\ full
    /\ unsent' = TRUE
    /\ Back
    /\ UNCHANGED <<queue, streaming, recording, gate, control, vad, full, lights,
                   starved>>

OpenFails ==
    /\ http = "send"
    /\ full
    /\ streaming' = FALSE
    /\ unsent' = TRUE
    /\ Back
    /\ UNCHANGED <<queue, recording, gate, control, vad, full, lights, starved>>

Sent ==
    /\ http = "send"
    /\ full
    /\ http' = "await"
    /\ UNCHANGED <<queue, streaming, recording, gate, control, vad, full, lights, past>>

(* Too little was recorded: nothing is sent, there is no answer. *)
NotSent ==
    /\ http = "send"
    /\ ~full
    /\ http' = "await"
    /\ UNCHANGED <<queue, streaming, recording, gate, control, vad, full, lights, past>>

(* Faulty variant: the idle blink stays suspended. *)
AnsweredDark ==
    /\ http = "await"
    /\ fast' = FALSE
    /\ http' = "done"
    /\ UNCHANGED <<queue, streaming, recording, gate, control, vad, full,
                   idle, leaked, past>>

(* The answer, after which the door is toggled or not (LockDoor), and the  *)
(* lights: the fast blink is deleted, the idle one resumed.                *)
Answered ==
    /\ http = "await"
    /\ fast' = FALSE
    /\ idle' = IF idle = "none" THEN "none" ELSE "running"
    /\ http' = "done"
    /\ UNCHANGED <<queue, streaming, recording, gate, control, vad, full, leaked, past>>

(* The body is drained and both flags are cleared. *)
Finish ==
    /\ http = "done"
    /\ recording' = FALSE
    /\ streaming' = FALSE
    /\ Back
    /\ UNCHANGED <<queue, gate, control, vad, full, lights, starved, unsent>>

-----------------------------------------------------------------------------
Controls == ReceiveStart \/ ReceiveStop \/ Enable \/ Give

Vads == VadListens \/ VadHearsNothing \/ VadTriggers \/ VadGives

Https ==
    \/ TakeGate \/ NoClientOrBuffer \/ StartRecording \/ NoSmallBuffer
    \/ Allocated \/ FillBuffer \/ EndRecording \/ OpenFails \/ Sent
    \/ NotSent \/ Answered \/ Finish

Next ==
    \/ \E command \in {"START", "STOP"} : Send(command)
    \/ Connected
    \/ Controls \/ Vads \/ Https

(* Each task is scheduled when it can run.  The codec delivers samples, so *)
(* the buffer fills; the HTTP client has a timeout of 15 s, so it returns; *)
(* so does toggle_door, outside the deadlock that LockDoor calls Crossed.  *)
(* Nobody has to speak, or to send a command.                              *)
Fairness == WF_vars(Controls) /\ WF_vars(Https) /\ WF_vars(Vads)

Spec == Init /\ [][Next]_vars /\ Fairness

-----------------------------------------------------------------------------
(* Safety. *)

(* http_stream_task owns a recording: it has taken the gate for it and has *)
(* not yet given it up.                                                    *)
Busy == http # "gate"

(* Streaming enabled blocks both START and the voice detection, so it must *)
(* always be somebody's to clear: http_stream_task is at work, or the gate *)
(* that will wake it is given or about to be.  The exception is the branch *)
(* of the failed allocation, recorded in starved.                          *)
NeverStuck == streaming /\ ~starved => Busy \/ Due

(* A recording under way has streaming enabled, so that vad_task leaves    *)
(* the raw stream to it, unless two triggers raced for the same flag and   *)
(* what the second one gave is not yet used up.                            *)
StreamIsOwned == Busy /\ ~raced => streaming

(* The flag that three tasks share and the work it stands for agree, both  *)
(* ways: nothing blocks the next recording for ever, and no recording goes *)
(* on without the flag.                                                    *)
StreamHasOwner == NeverStuck /\ StreamIsOwned

(* Between recordings the lights are those of an idle device, unless one   *)
(* of the two failure branches that skip them was taken.                   *)
LightsRestored ==
    ~Busy /\ ~starved /\ ~unsent => ~fast /\ ~leaked /\ idle # "suspended"

-----------------------------------------------------------------------------
(* Liveness. *)

(* Unless an allocation failed, the device always comes back to listening. *)
ListensAgain == streaming ~> (~streaming \/ starved)

=============================================================================
