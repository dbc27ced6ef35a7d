\* Two gateways on time, or one that is a second late; every tick source; a verdict or a tick delivered twice, or a restart.
SPECIFICATION MCSpec
CONSTANTS
  Gateways = {g1, g2}
  T = 3
  MaxLag = 1
  MaxSeconds = 8
  MaxUpsets = 1
SYMMETRY Symmetry
INVARIANTS TypeOK SilenceIsReal SilenceIsReported
PROPERTY OncePerEpisode
