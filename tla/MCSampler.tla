----------------------------- MODULE MCSampler -----------------------------
EXTENDS Sampler

MCValues == {"v1", "v2"}

=============================================================================
