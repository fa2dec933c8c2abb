----------------------------- MODULE MsePlayer -----------------------------
(***************************************************************************)
(* One mounted MSEPlayer: a websocket that brings the stream, a MediaSource *)
(* attached to the video element, and the timers that give up on it.       *)
(*                                                                         *)
(* What makes it hard is which render a callback belongs to.  onConnect is *)
(* memoized for the url, so the handlers of every socket (onOpen, onClose, *)
(* onMse, and the disconnect of their timeouts) are those of the first     *)
(* render, in which wsState is CLOSED and bufferTimeout is undefined.  The *)
(* visibility listener, onProgress and the video's onError are of the last *)
(* render.  A disconnect of an old render leaves the buffer timer running. *)
(***************************************************************************)
EXTENDS Integers, Sequences, FiniteSets

CONSTANTS
  MaxSockets,      \* bound: sockets opened by one player
  MaxChunks,       \* bound: pieces of the stream received
  MaxBuffer,       \* pieces that fit in the 2 MiB of buf
  MaxToggles,      \* bound: changes of playbackEnabled and of visibility
  MaxErrors,       \* errors after which the player gives up (3)
  PlayInBackground

ASSUME MseAssumption ==
  /\ MaxSockets \in Nat \ {0} /\ MaxChunks \in Nat /\ MaxBuffer \in Nat \ {0}
  /\ MaxToggles \in Nat /\ MaxErrors \in Nat /\ PlayInBackground \in BOOLEAN

VARIABLES
  mounted, wanted, hidden,   \* wanted: playbackEnabled, hidden: document.hidden
  ws, sock, made,            \* wsRef (0: null), state of each socket ("none", "connecting",
                             \* "open", "closed"), sockets made
  retry,                     \* pending reconnect timers
  attached,                  \* MediaSource of the video: "none", "old", or "current" (msRef)
  opened, listeners,         \* it is open; its sourceopen listeners not yet called
  handler,                   \* onmessageRef/ondataRef: "none", "mse" or "ready"
  asked, lost,               \* 3 s answer timers: known to the handler, forgotten by it
  updating, buf, received, appended,  \* SourceBuffer and its queue, last pieces in and out
  isPlaying, timer, errors,  \* timer: the buffer timeout is pending
  report,                    \* last error given to onError: "none", "startup", "stalled",
                             \* "mse-decode"
  toggles

sockets  == <<ws, sock, made>>
media    == <<attached, opened, listeners>>
answers  == <<handler, asked, lost>>
buffers  == <<updating, buf, received, appended>>
playback == <<isPlaying, timer, errors, report>>
page     == <<mounted, wanted, hidden, toggles>>
mseVars == <<mounted, wanted, hidden, ws, sock, made, retry, attached, opened, listeners, handler,
             asked, lost, updating, buf, received, appended, isPlaying, timer, errors, report,
             toggles>>

MseInit ==
  /\ mounted = TRUE /\ wanted = TRUE /\ hidden = FALSE
  /\ ws = 1 /\ made = 1
  /\ sock = [i \in 1..MaxSockets |-> IF i = 1 THEN "connecting" ELSE "none"]
  /\ retry = 0 /\ attached = "none" /\ opened = FALSE /\ listeners = 0
  /\ handler = "none" /\ asked = 0 /\ lost = 0
  /\ updating = FALSE /\ buf = <<>> /\ received = 0 /\ appended = 0
  /\ isPlaying = FALSE /\ timer = FALSE /\ errors = 0 /\ report = "none" /\ toggles = 0

-----------------------------------------------------------------------------
(* Connecting and disconnecting *)

\* Mutant: a socket is made whatever wsRef holds.
OnConnect_Always ==
  IF mounted
  THEN /\ made < MaxSockets
       /\ made' = made + 1 /\ ws' = made + 1
       /\ sock' = [sock EXCEPT ![made + 1] = "connecting"]
  ELSE UNCHANGED sockets

\* onConnect: nothing happens without the element or while wsRef is set.
OnConnect ==
  IF mounted /\ ws = 0
  THEN /\ made < MaxSockets
       /\ made' = made + 1 /\ ws' = made + 1
       /\ sock' = [sock EXCEPT ![made + 1] = "connecting"]
  ELSE UNCHANGED sockets

\* onDisconnect of the last render (fresh) knows the buffer timer, older ones do not.
OnDisconnect(fresh) ==
  /\ isPlaying' = FALSE
  /\ timer' = (timer /\ ~fresh)
  /\ IF ws # 0
     THEN /\ sock' = [sock EXCEPT ![ws] = "closed"] /\ ws' = 0 /\ made' = made
     ELSE UNCHANGED sockets

Report(error) == report' = error

\* onClose was created in a render whose wsState is CLOSED: it returns.
OnClose == UNCHANGED <<ws, made, retry>>

\* The server, or the network, ends a socket.
SocketCloses(i) ==
  /\ sock[i] \in {"connecting", "open"}
  /\ sock' = [sock EXCEPT ![i] = "closed"]
  /\ OnClose
  /\ UNCHANGED <<page, media, answers, buffers, playback>>

\* reconnect's timer calls onConnect, whatever happened in between.
Reconnect ==
  /\ retry > 0 /\ retry' = retry - 1
  /\ OnConnect
  /\ UNCHANGED <<page, media, answers, buffers, playback>>

-----------------------------------------------------------------------------
(* Opening the stream *)

\* onOpen forgets the handlers of the previous socket, whose answer timers run on;
\* onMse attaches the MediaSource of msRef and waits for sourceopen.
OnOpen(i) ==
  /\ sock[i] = "connecting" /\ i = ws
  /\ sock' = [sock EXCEPT ![i] = "open"]
  /\ handler' = "mse" /\ lost' = lost + asked /\ asked' = 0
  /\ listeners' = (IF attached = "current" THEN listeners ELSE 0) + 1
  /\ attached' = "current" /\ opened' = FALSE
  /\ UNCHANGED <<page, ws, made, retry, buffers, playback>>

\* Mutant: the codecs are sent without a timer for their answer.
SourceOpen_NoTimer ==
  /\ attached # "none" /\ ~opened /\ listeners > 0
  /\ opened' = TRUE /\ listeners' = 0
  /\ UNCHANGED <<page, sockets, retry, attached, answers, buffers, playback>>

\* Every waiting listener sends the codecs and starts its timer; a send on a
\* socket that is still connecting throws, which rejects the promise at once.
SourceOpen ==
  /\ attached # "none" /\ ~opened /\ listeners > 0
  /\ opened' = TRUE /\ listeners' = 0
  /\ IF ws # 0 /\ sock[ws] = "connecting"
     THEN OnDisconnect(FALSE) /\ Report("startup") /\ UNCHANGED <<asked, lost, handler, errors>>
     ELSE /\ asked' = asked + listeners
          /\ UNCHANGED <<handler, lost, sockets, playback>>
  /\ UNCHANGED <<page, retry, attached, buffers>>

\* The answer reaches every wrapped handler, which clears its timer, and then
\* adds the SourceBuffer; this fails unless msRef is the source that is open.
OnMse ==
  /\ ws # 0 /\ sock[ws] = "open" /\ handler = "mse" /\ asked > 0
  /\ asked' = 0
  /\ IF attached = "current" /\ opened
     THEN /\ handler' = "ready" /\ updating' = FALSE /\ buf' = <<>>
          /\ UNCHANGED <<sockets, playback, received, appended>>
     ELSE /\ OnDisconnect(FALSE) /\ Report("mse-decode")
          /\ UNCHANGED <<handler, buffers, errors>>
  /\ UNCHANGED <<page, retry, media, lost>>

\* No answer in three seconds: whatever socket is there now is given up.
AnswerTimeout ==
  /\ \/ asked > 0 /\ asked' = asked - 1 /\ lost' = lost
     \/ lost > 0 /\ lost' = lost - 1 /\ asked' = asked
  /\ OnDisconnect(FALSE) /\ Report("startup")
  /\ UNCHANGED <<page, retry, media, handler, buffers, errors>>

-----------------------------------------------------------------------------
(* The stream *)

Receiving == ws # 0 /\ sock[ws] = "open" /\ handler = "ready"

\* ondataRef: while the SourceBuffer is busy, or older pieces wait, a piece is
\* queued; buf.set throws when it does not fit.  appendBuffer may throw as well.
OnData ==
  /\ Receiving /\ received < MaxChunks
  /\ received' = received + 1
  /\ IF updating \/ buf # <<>>
     THEN /\ buf' = IF Len(buf) < MaxBuffer THEN Append(buf, received + 1) ELSE buf
          /\ UNCHANGED <<updating, appended>>
     ELSE /\ buf' = buf
          /\ \/ updating' = TRUE /\ appended' = received + 1
             \/ UNCHANGED <<updating, appended>>
  /\ UNCHANGED <<page, sockets, retry, media, answers, playback>>

\* Mutant: a queue that could not be appended is kept, but nothing is under way.
UpdateEnd_Kept ==
  /\ updating
  /\ IF buf # <<>>
     THEN \/ updating' = TRUE /\ appended' = buf[Len(buf)] /\ buf' = <<>>
          \/ updating' = FALSE /\ appended' = appended /\ buf' = buf
     ELSE updating' \in BOOLEAN /\ UNCHANGED <<buf, appended>>
  /\ UNCHANGED <<page, sockets, retry, media, answers, received, playback>>

\* updateend: the queue is handed over in one piece (or lost, if appendBuffer
\* throws); otherwise what was played is removed, which is an update again.
UpdateEnd ==
  /\ updating
  /\ IF buf # <<>>
     THEN /\ buf' = <<>>
          /\ \/ updating' = TRUE /\ appended' = buf[Len(buf)]
             \/ updating' = FALSE /\ appended' = appended
     ELSE updating' \in BOOLEAN /\ UNCHANGED <<buf, appended>>
  /\ UNCHANGED <<page, sockets, retry, media, answers, received, playback>>

LoadedData ==
  /\ mounted /\ appended > 0 /\ ~isPlaying /\ Receiving
  /\ isPlaying' = TRUE
  /\ UNCHANGED <<page, sockets, retry, media, answers, buffers, timer, errors, report>>

\* onProgress: ahead is the class of the buffered time, over tells that the
\* average is above ten seconds.  The last step restarts the buffer timer, also
\* after the disconnect above it.
OnProgress(ahead, over, paused) ==
  /\ mounted /\ appended > 0 /\ Receiving
  /\ LET plays == isPlaying \/ (wanted /\ ahead # "little")
         stalls == isPlaying /\ wanted /\ (ahead = "over10" \/ over)
     IN IF stalls
        THEN /\ isPlaying' = FALSE /\ Report("stalled") /\ ws' = 0 /\ made' = made
             /\ sock' = [sock EXCEPT ![ws] = "closed"]
        ELSE isPlaying' = plays /\ UNCHANGED <<sockets, report>>
  /\ timer' = (~paused \/ (timer /\ ~(isPlaying /\ wanted /\ (ahead = "over10" \/ over))))
  /\ UNCHANGED <<page, retry, media, answers, buffers, errors>>

\* Nothing new for three (five) seconds.
BufferTimeout ==
  /\ timer
  /\ IF ~hidden /\ ws # 0 /\ mounted
     THEN OnDisconnect(TRUE) /\ Report("stalled")
     ELSE timer' = FALSE /\ UNCHANGED <<sockets, isPlaying, report>>
  /\ UNCHANGED <<page, retry, media, answers, buffers, errors>>

\* An error of the video element.  A network (or, on Safari, decoding) error
\* disconnects first, so that the retry below it finds no socket.
VideoError(kind) ==
  /\ mounted /\ attached # "none" /\ errors <= MaxErrors
  /\ errors' = errors + 1
  /\ OnDisconnect(TRUE)
  /\ CASE kind = "network" -> Report("startup") /\ retry' = retry
       [] kind = "safari"  -> Report("mse-decode") /\ retry' = retry
       [] kind = "other" ->
            IF ws # 0 /\ errors < MaxErrors
            THEN retry' = retry + 1 /\ report' = report
            ELSE retry' = retry /\ IF ws # 0 THEN Report("startup") ELSE report' = report
  /\ UNCHANGED <<page, media, answers, buffers>>

-----------------------------------------------------------------------------
(* The page *)

\* playbackEnabled: its effect's cleanup is of the render the effect ran in.
SetWanted ==
  /\ mounted /\ toggles < MaxToggles /\ toggles' = toggles + 1
  /\ wanted' = ~wanted
  /\ IF wanted
     THEN OnDisconnect(FALSE) /\ UNCHANGED <<attached, errors, report>>
     ELSE /\ attached' = IF attached = "none" THEN "none" ELSE "old"
          /\ OnConnect /\ UNCHANGED playback
  /\ UNCHANGED <<mounted, hidden, retry, opened, listeners, answers, buffers>>

SetHidden ==
  /\ mounted /\ toggles < MaxToggles /\ toggles' = toggles + 1
  /\ hidden' = ~hidden
  /\ IF ~wanted \/ PlayInBackground
     THEN UNCHANGED <<sockets, playback>>
     ELSE IF hidden' THEN OnDisconnect(TRUE) /\ UNCHANGED <<errors, report>>
                     ELSE OnConnect /\ UNCHANGED playback
  /\ UNCHANGED <<mounted, wanted, retry, media, answers, buffers>>

Unmount ==
  /\ mounted /\ mounted' = FALSE
  /\ IF wanted THEN OnDisconnect(FALSE) ELSE UNCHANGED <<sockets, isPlaying, timer>>
  /\ UNCHANGED <<wanted, hidden, toggles, retry, media, answers, buffers, errors, report>>

ErrorKinds == {"network", "safari", "other"}
AheadTimes == {"little", "over3", "over10"}

MseNext ==
  \/ \E i \in 1..MaxSockets : OnOpen(i) \/ SocketCloses(i)
  \/ Reconnect \/ SourceOpen \/ OnMse \/ AnswerTimeout
  \/ OnData \/ UpdateEnd \/ LoadedData \/ BufferTimeout
  \/ \E ahead \in AheadTimes, over, paused \in BOOLEAN : OnProgress(ahead, over, paused)
  \/ \E kind \in ErrorKinds : VideoError(kind)
  \/ SetWanted \/ SetHidden \/ Unmount

\* The browser delivers what is due: source events, timers and updates.
MseFairness ==
  /\ WF_mseVars(SourceOpen) /\ WF_mseVars(AnswerTimeout) /\ WF_mseVars(BufferTimeout)
  /\ WF_mseVars(UpdateEnd) /\ WF_mseVars(Reconnect)

MseSpec == MseInit /\ [][MseNext]_mseVars
MseFairSpec == MseSpec /\ MseFairness

-----------------------------------------------------------------------------
(* Properties *)

Live(i) == sock[i] \in {"connecting", "open"}
Watched == mounted /\ wanted /\ ~hidden /\ ws # 0

\* However errors, retries and toggles interleave, a socket that is not closed is
\* the one wsRef holds: it is never connected over, and the next disconnect finds it.
OneSocket == \A i \in 1..MaxSockets : Live(i) => i = ws

\* What waits in the queue is newer than what was appended, and in the order it was
\* received; and it waits for an update that is under way, whose end will hand it over:
\* without one the queue would never be emptied, because ondata keeps queuing.
StreamInOrder ==
  /\ \A j \in 1..Len(buf) : buf[j] > appended
  /\ \A j \in 1..Len(buf) - 1 : buf[j] < buf[j + 1]
  /\ handler = "ready" /\ buf # <<>> => updating

\* A socket that was opened for somebody who watches is answered, or given up
\* with an error for the parent: the answer timer covers every handshake.
OpenedIsAnswered ==
  (Watched /\ sock[ws] = "open") ~> (handler = "ready" \/ report # "none" \/ ~Watched)
=============================================================================
