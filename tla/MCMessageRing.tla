---------------------------- MODULE MCMessageRing ----------------------------
EXTENDS MessageRing

MCRings == {TwoPhasePush, CommitBuffer, DataFeeder, SpscTwo, SpscCommit, PollingDemo,
            SpscPricer, Basic}
=============================================================================
