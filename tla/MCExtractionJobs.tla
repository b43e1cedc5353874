-------------------------- MODULE MCExtractionJobs --------------------------
EXTENDS ExtractionJobs

MCJobs == {{"flow"}, {"flow", "tls"}}
=============================================================================
