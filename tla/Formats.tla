------------------------------ MODULE Formats ------------------------------
(***************************************************************************)
(* The format of a source: FormatNew chooses between MP3 and OGG, and      *)
(* everything else goes through psMethods (src/src/format.c 1222-1306).    *)
(* FormatDestroy comes with the end of the source, when its listeners have *)
(* been taken off it (src/src/sources.c 48-55).                            *)
(***************************************************************************)
EXTENDS MP3Format, OGGFormat

VARIABLE psMethods   (* "mp3", "ogg", and "gone" after the end *)

vars == <<psMethods, mp3vars, oggvars>>

Init == psMethods \in {"mp3", "ogg"} /\ MP3Init /\ OGGInit

(* _MP3Done destroys the mutex only; the titles are freed, the block of    *)
(* the format is not.                                                      *)
MP3Destroy ==
  /\ psMethods = "mp3" /\ psMethods' = "gone"
  /\ \A c \in MP3Clients : At(c, "away")
  /\ apsMeta' = [i \in Places |-> NoTitle]
  /\ UNCHANGED <<ulMetaIdx, said, blocks, mp3, mp3edge, oggvars>>

OGGDestroy ==
  /\ psMethods = "ogg" /\ psMethods' = "gone"
  /\ \A c \in OGGClients : ogg[c].pc = "away"
  /\ ending = NoStream
  /\ stream' = Counted(sSVec, -1) /\ sSVec' = <<>>
  /\ UNCHANGED <<arrived, stored, ulSyncPos, ending, ogg, mixed, mp3vars>>

Next ==
  \/ psMethods = "mp3" /\ MP3Next /\ UNCHANGED <<psMethods, oggvars>>
  \/ psMethods = "ogg" /\ OGGNext /\ UNCHANGED <<psMethods, mp3vars>>
  \/ MP3Destroy \/ OGGDestroy

Spec == Init /\ [][Next]_vars

----------------------------------------------------------------------------
(* Properties *)

(* A block of metadata, or a logical stream, lives exactly as long as      *)
(* somebody points at it: its count is that of its holders, whoever of the *)
(* listeners made it, found it or left in the middle of it; none is freed  *)
(* in use, and at the end of the source the one block of the format is all *)
(* that is left (nobody frees that).  Of OGG it holds until one of several *)
(* streams leaves a vector.                                                *)
SharedByCount ==
  /\ \A b \in Blocks : block[b].ulUsed = BlockHolders(b)
  /\ ~mixed => \A s \in DOMAIN stream : stream[s].ulUsed = StreamHolders(s)

(* What a listener gets can be decoded.  MP3: between two pieces of        *)
(* metadata come exactly ulMetaInterval bytes of the stream, and a piece   *)
(* is as long as its first byte says, however reads and boundaries fall;   *)
(* as long as titles fit.  OGG: the headers of a stream come before its    *)
(* other pages, unless the listener came before there was anything to      *)
(* start at, the stream ended while it joined, or had no headers, and      *)
(* until one of several streams leaves a vector.                           *)
Decodable ==
  /\ "long" \notin mp3edge => \A c \in MP3Clients : mp3[c].player = Due(mp3[c])
  /\ ~mixed => \A c \in OGGClients :
       ~ogg[c].unplaced => ogg[c].heard \subseteq ogg[c].known \cup Headless(c)

(* A listener that is told nothing new at the end of its interval has been *)
(* told the latest title, whoever made the block it got it from; and a     *)
(* listener that copies a title without hmtxMeta copies the one it looked  *)
(* up, as long as fewer titles are set than the history has places.        *)
ToldLatest ==
  /\ mp3edge \cap {"raced", "lapped"} = {} =>
       \A c \in MP3Clients : ~At(c, "away") /\ mp3[c].lastId = ulMetaIdx => mp3[c].told = said
  /\ \A c \in MP3Clients :
       At(c, "copy") /\ said - mp3[c].title < Items
         => apsMeta[Place(mp3[c].idx - 1)] = mp3[c].title

(* Besides, one title leaves alone everything that a page may have been    *)
(* given of the history: that is what its place too many is for (comment   *)
(* at src/src/format.c 43).                                                *)
LatestTitle ==
  /\ []ToldLatest
  /\ [][psMethods' = "mp3" => \A k \in 0..Items-2 : apsMeta'[HistoryPlace(k)] = apsMeta[HistoryPlace(k)]]_titles
=============================================================================
