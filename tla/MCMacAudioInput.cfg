\* Two callbacks at once, frames of two floats, a ring that is no multiple of a
\* frame, a need that fits beside every packet and one that need not.  The
\* owner destroys only what nobody samples; then, or after a failed set-up, the
\* system stops.
SPECIFICATION FairSpec
CONSTANTS
  Callbacks = {c, d}
  Channels = 2
  RingSize = 7
  Packets = {2, 4}
  Needs = {2, 4, 6}
  ReleasedAt = {"idle"}
  Saturation = 16
INVARIANTS ReadsWhatIsThere HoldsWholeFrames IInv
PROPERTIES SampleIsServed ImplementsAudioSource
CHECK_DEADLOCK FALSE
