-------------------------- MODULE MCIntradayJournal --------------------------
EXTENDS IntradayJournal

CONSTANTS u, w

MCUsers == {u}
=============================================================================
