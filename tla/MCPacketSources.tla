--------------------------- MODULE MCPacketSources ---------------------------
(* Three sessions, so that a second loss can meet the marks of the first; a  *)
(* maximal backoff that is no power of two times the initial one; reads of    *)
(* at most two packets, so that a read can exceed the limit; cameras of each  *)
(* codec, with tracks that do not fit, too many tracks, and none that fits.   *)
EXTENDS PacketSources

MCInitialBackoff == 1
MCMaxBackoff == 3
MCMaxPending == 2
MCMaxAttempts == 2
MCMaxSession == 3
MCMaxTracks == 3

Track(media, name, rate, channels) ==
  [media |-> media, name |-> name, rate |-> rate, channels |-> channels, lc |-> TRUE]

H264 == Track("video", "h264", 90000, 0)
H265 == Track("video", "h265", 90000, 0)
Jpeg == Track("video", "jpeg", 90000, 0)
Aac == Track("audio", "mpeg4-generic", 48000, 2)
HeAac == [Aac EXCEPT !.lc = FALSE]
OldAac == Track("audio", "mpeg4-generic", 44100, 2)
Alaw == Track("audio", "pcma", 8000, 1)
Mulaw == Track("audio", "pcmu", 8000, 0)
Data == Track("application", "onvif", 90000, 0)

MCOffers ==
  {<<H264, Aac>>, <<H264, OldAac>>, <<H265, HeAac, Alaw>>, <<Jpeg, H264, H265>>, <<Mulaw, H264>>,
   <<Aac>>, <<Jpeg, HeAac>>, <<H264, Aac, Data, Data>>}
=============================================================================
