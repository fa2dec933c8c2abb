-------------------------- MODULE FallbackPlayers --------------------------
(***************************************************************************)
(* The two players the live view falls back to.                            *)
(*                                                                         *)
(* WebRtcPlayer: its effect makes a peer connection whenever playback, the *)
(* microphone or the url change, and closes pcRef in its cleanup.  Making  *)
(* one takes no time, unless the browser asks for the microphone: then     *)
(* connect goes on when the user answers, whatever happened meanwhile.     *)
(*                                                                         *)
(* JSMpegPlayer: its effect makes the decoder in a timeout of 0 ms and     *)
(* destroys it in its cleanup.                                             *)
(***************************************************************************)
EXTENDS Integers, FiniteSets

CONSTANTS MaxChanges, MaxPeers   \* bounds: changes of a player's props, connections made

ASSUME FallbackAssumption == MaxChanges \in Nat /\ MaxPeers \in Nat \ {0}

VARIABLES
  rtcMounted, rtcWanted, mic,  \* props of the WebRtcPlayer
  peers, pcRef, peersMade,     \* open connections, the one in the ref (0: undefined)
  prompts,                     \* connections waiting for the microphone
  prompted,                    \* the browser asked at least once
  loadTimer, rtcTimer,         \* videoLoadTimeout and bufferTimeout are pending
  rtcLoaded, rtcReport,        \* data was loaded; last error given to onError
  jsMounted, jsWanted, jsUrl,  \* props of the JSMpegPlayer
  initTimer,                   \* the url the pending init timeout was made for (0: none)
  decoders,                    \* urls of the decoders that run
  hasData,
  changes

rtcVars == <<rtcMounted, rtcWanted, mic, peers, pcRef, peersMade, prompts, prompted, loadTimer,
             rtcTimer, rtcLoaded, rtcReport>>
jsVars  == <<jsMounted, jsWanted, jsUrl, initTimer, decoders, hasData>>
fallbackVars == <<rtcMounted, rtcWanted, mic, peers, pcRef, peersMade, prompts, prompted, loadTimer,
                  rtcTimer, rtcLoaded, rtcReport, jsMounted, jsWanted, jsUrl, initTimer, decoders,
                  hasData, changes>>

FallbackTypeOK ==
  /\ rtcMounted \in BOOLEAN /\ rtcWanted \in BOOLEAN /\ mic \in BOOLEAN
  /\ peersMade \in 0..MaxPeers /\ peers \subseteq 1..peersMade /\ pcRef \in 0..peersMade
  /\ prompts \in Nat /\ prompted \in BOOLEAN /\ loadTimer \in BOOLEAN /\ rtcTimer \in BOOLEAN
  /\ rtcLoaded \in BOOLEAN /\ rtcReport \in {"none", "stalled", "startup"}
  /\ jsMounted \in BOOLEAN /\ jsWanted \in BOOLEAN /\ jsUrl \in Nat
  /\ initTimer \in 0..jsUrl /\ decoders \subseteq 1..jsUrl /\ hasData \in BOOLEAN
  /\ changes \in Nat

Change == changes < MaxChanges /\ changes' = changes + 1

-----------------------------------------------------------------------------
(* WebRtcPlayer *)

\* connect, once aPc is there: pcRef is overwritten, whatever it held.
Connected == 
  /\ peersMade < MaxPeers /\ peersMade' = peersMade + 1
  /\ pcRef' = peersMade + 1

\* Cleanup of the effect, then the effect itself for the new props.
CloseRef_Not == peers
CloseRef == IF pcRef = 0 THEN peers ELSE peers \ {pcRef}
ConnectEffect(on, withMic) ==
  IF ~on
  THEN peers' = CloseRef /\ pcRef' = 0 /\ UNCHANGED <<peersMade, prompts, prompted>>
  ELSE IF withMic
  THEN /\ peers' = CloseRef /\ pcRef' = 0 /\ peersMade' = peersMade
       /\ prompts' = prompts + 1 /\ prompted' = TRUE
  ELSE /\ Connected /\ peers' = CloseRef \cup {peersMade + 1}
       /\ UNCHANGED <<prompts, prompted>>

RtcMount ==
  /\ ~rtcMounted /\ Change
  /\ rtcMounted' = TRUE /\ rtcWanted' \in BOOLEAN /\ mic' \in BOOLEAN
  /\ ConnectEffect(rtcWanted', mic')
  /\ loadTimer' = TRUE /\ rtcLoaded' = FALSE /\ rtcReport' = "none"
  /\ UNCHANGED <<rtcTimer, jsVars>>

RtcUnmount ==
  /\ rtcMounted /\ rtcMounted' = FALSE
  /\ ConnectEffect(FALSE, FALSE)
  /\ loadTimer' = FALSE
  /\ UNCHANGED <<rtcWanted, mic, rtcTimer, rtcLoaded, rtcReport, jsVars, changes>>

RtcProps ==
  /\ rtcMounted /\ Change
  /\ \/ rtcWanted' = ~rtcWanted /\ mic' = mic
     \/ mic' = ~mic /\ rtcWanted' = rtcWanted
  /\ ConnectEffect(rtcWanted', mic')
  /\ UNCHANGED <<rtcMounted, loadTimer, rtcTimer, rtcLoaded, rtcReport, jsVars>>

\* getMediaTracks returned, with the tracks or (refused) without.
PromptAnswered ==
  /\ prompts > 0 /\ prompts' = prompts - 1
  /\ Connected /\ peers' = peers \cup {peersMade + 1}
  /\ UNCHANGED <<rtcMounted, rtcWanted, mic, prompted, loadTimer, rtcTimer, rtcLoaded, rtcReport,
                 jsVars, changes>>

RtcLoadedData ==
  /\ rtcMounted /\ pcRef # 0 /\ ~rtcLoaded
  /\ rtcLoaded' = TRUE /\ loadTimer' = FALSE
  /\ UNCHANGED <<rtcMounted, rtcWanted, mic, peers, pcRef, peersMade, prompts, prompted, rtcTimer,
                 rtcReport, jsVars, changes>>

\* Five seconds after the mount, whether or not playback was enabled since.
RtcLoadTimeout ==
  /\ loadTimer /\ loadTimer' = FALSE /\ rtcReport' = "stalled"
  /\ UNCHANGED <<rtcMounted, rtcWanted, mic, peers, pcRef, peersMade, prompts, prompted, rtcTimer,
                 rtcLoaded, jsVars, changes>>

RtcProgress ==
  /\ rtcMounted /\ rtcLoaded /\ pcRef # 0 /\ rtcTimer' = TRUE
  /\ UNCHANGED <<rtcMounted, rtcWanted, mic, peers, pcRef, peersMade, prompts, prompted, loadTimer,
                 rtcLoaded, rtcReport, jsVars, changes>>

RtcStalled ==
  /\ rtcTimer /\ rtcTimer' = FALSE
  /\ rtcReport' = IF pcRef # 0 THEN "stalled" ELSE rtcReport
  /\ UNCHANGED <<rtcMounted, rtcWanted, mic, peers, pcRef, peersMade, prompts, prompted, loadTimer,
                 rtcLoaded, jsVars, changes>>

-----------------------------------------------------------------------------
(* JSMpegPlayer *)

JsEffect(on, url) ==
  /\ hasData' = FALSE
  /\ initTimer' = (IF on THEN url ELSE 0)
  /\ decoders' = {}

JsMount ==
  /\ ~jsMounted /\ Change /\ jsMounted' = TRUE
  /\ jsWanted' \in BOOLEAN /\ jsUrl' = jsUrl + 1
  /\ JsEffect(jsWanted', jsUrl')
  /\ UNCHANGED rtcVars

JsProps ==
  /\ jsMounted /\ Change
  /\ \/ jsWanted' = ~jsWanted /\ jsUrl' = jsUrl
     \/ jsUrl' = jsUrl + 1 /\ jsWanted' = jsWanted
  /\ JsEffect(jsWanted', jsUrl')
  /\ UNCHANGED <<jsMounted, rtcVars>>

JsUnmount ==
  /\ jsMounted /\ jsMounted' = FALSE
  /\ initTimer' = 0 /\ decoders' = {}
  /\ UNCHANGED <<jsWanted, jsUrl, hasData, rtcVars, changes>>

InitPlayer ==
  /\ initTimer # 0 /\ initTimer' = 0
  /\ decoders' = decoders \cup {initTimer}
  /\ UNCHANGED <<jsMounted, jsWanted, jsUrl, hasData, rtcVars, changes>>

OnVideoDecode ==
  /\ decoders # {} /\ ~hasData /\ hasData' = TRUE
  /\ UNCHANGED <<jsMounted, jsWanted, jsUrl, initTimer, decoders, rtcVars, changes>>

-----------------------------------------------------------------------------

FallbackInit ==
  /\ rtcMounted = FALSE /\ rtcWanted = FALSE /\ mic = FALSE
  /\ peers = {} /\ pcRef = 0 /\ peersMade = 0 /\ prompts = 0 /\ prompted = FALSE
  /\ loadTimer = FALSE /\ rtcTimer = FALSE /\ rtcLoaded = FALSE /\ rtcReport = "none"
  /\ jsMounted = FALSE /\ jsWanted = FALSE /\ jsUrl = 0 /\ initTimer = 0
  /\ decoders = {} /\ hasData = FALSE /\ changes = 0

FallbackNext ==
  \/ RtcMount \/ RtcUnmount \/ RtcProps \/ PromptAnswered
  \/ RtcLoadedData \/ RtcLoadTimeout \/ RtcProgress \/ RtcStalled
  \/ JsMount \/ JsProps \/ JsUnmount \/ InitPlayer \/ OnVideoDecode

FallbackSpec == FallbackInit /\ [][FallbackNext]_fallbackVars

-----------------------------------------------------------------------------
(* Properties *)

\* As long as the microphone is not asked for, no sequence of toggles leaves a
\* connection open that pcRef does not hold, nor one for a player that is gone.
NoPeerLeftBehind ==
  ~prompted => /\ peers = (IF pcRef = 0 THEN {} ELSE {pcRef})
               /\ ~(rtcMounted /\ rtcWanted) => peers = {}
=============================================================================
