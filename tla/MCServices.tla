----------------------------- MODULE MCServices -----------------------------
(* The kernel's services that keep state of their own, each by itself: a state
   belongs to one part, and only the actions of that part are taken in it. *)
EXTENDS Pmem, Timers, Heap, Dma, Calendar, Sound

CONSTANTS MixedTimers,      \* timers of both kinds
          p1, p2, dma       \* holders of frames

VARIABLE part

TimerParts == {"ktimers", "hrtimers", "timers"}
SoundParts == {"playing", "streams", "work"}
Parts == {"frames", "heap", "dma", "calendar", "clock"} \union TimerParts \union SoundParts

(* A machine of six frames: 0 is low memory, which the map does not offer, 1 the
   kernel, 4 a hole of the map.  Frames 2, 3 and 5 can be given out, so a run of
   two fits, straddles the hole or straddles the cursor.  The free estimate counts
   frame 0 as used but not in the total: it is one less than the number of free
   frames, and wraps when none is free. *)
MCHolders == {p1, p2, dma}
MCProcesses == {p1, p2}
MCAvailable == {1, 2, 3, 5}
\* Byte windows of frames 2 and 3, of frame 3 alone (both ends inside a frame),
\* and of everything from frame 4 to past the end of the bitmap.
MCWindows == {<<3, 9>>, <<5, 9>>, <<8, 40>>}

SomeOffsets == {-3, 1}
\* 1970 to 1973, and around the ends of February 2000 and 2100
SomeWindows == {<<0, 1500>>, <<10950, 11050>>, <<47480, 47560>>}

serviceVars == <<timerVars, heapVars, dmaVars, calendarVars>>

MCInit ==
  /\ part \in Parts
  /\ Init /\ TimersInit /\ HeapInit /\ dma_init /\ CalendarInit /\ SoundInit

TimersPart ==
  \/ part = "ktimers" /\ TimersNext(KTimers)
  \/ part = "hrtimers" /\ TimersNext(HTimers)
  \/ part = "timers" /\ TimersNext(MixedTimers)

\* Playback in three ways: writing and playing one stream, several streams on a
\* device, and the work queue shared with other drivers.
SoundPart ==
  \/ part = "playing" /\ \/ StreamCall(1) \/ \E n \in Lengths : sound_stream_write(1, n)
                         \/ Stopping \/ Interrupt
  \/ part = "streams" /\ \/ \E s \in Streams : StreamCall(s)
                         \/ sound_device_unregister \/ Stopping \/ Interrupt
  \/ part = "work" /\ \/ StreamCall(1) \/ sound_device_unregister \/ Stopping \/ Interrupt
                      \/ OtherIrq

ServicesNext ==
  \/ TimersPart /\ UNCHANGED <<heapVars, dmaVars, calendarVars>>
  \/ part = "heap" /\ HeapNext /\ UNCHANGED <<timerVars, dmaVars, calendarVars>>
  \/ part = "dma" /\ DmaNext /\ UNCHANGED <<timerVars, heapVars, calendarVars>>
  \/ part = "calendar" /\ (FirstDay \/ NextDay) /\ UNCHANGED <<timerVars, heapVars, dmaVars>>
  \/ part = "clock" /\ ClockNext /\ UNCHANGED <<timerVars, heapVars, dmaVars>>

MCNext ==
  /\ UNCHANGED part
  /\ \/ part = "frames" /\ Next /\ UNCHANGED <<serviceVars, soundVars>>
     \/ ServicesNext /\ UNCHANGED <<vars, soundVars>>
     \/ SoundPart /\ UNCHANGED <<vars, serviceVars>>

MCSpec == MCInit /\ [][MCNext]_<<vars, serviceVars, soundVars, part>>

\* Memory and DMA buffers are handed out once and taken back whole (heap.c, slab.c, dma.c).
BuffersSound == (part = "heap" => HeapSound) /\ (part = "dma" => DmaExact)

\* Dates and seconds agree, and the clock is as late as the ticks say (calendar.c, rtc.c).
CalendarRight == (part = "calendar" => DatesAgree) /\ (part = "clock" => ClockRight)

\* What is written is played in order, playing goes on while there is something to
\* play, and the work of other drivers is done in its order (sound_core.c, workqueue.c).
PlaybackSound == part \in SoundParts => PlaybackExact /\ NoStall /\ OthersInOrder
=============================================================================
