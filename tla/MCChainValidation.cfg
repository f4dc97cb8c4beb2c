\* Every chain of up to two transforms, each a leaf or a Tee whose chains
\* hold up to two leaves and whose buffer_size is absent, 0 or 1, is
\* validated and, when it validates, built.
CONSTANTS
  Leaves <- MCLeaves
  Terminating = {"NullSink"}
  MaxChainLen = 2
  BufferSizes = {0, 1}
SPECIFICATION Spec
INVARIANT ValidationComplete
