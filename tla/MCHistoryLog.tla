---------------------------- MODULE MCHistoryLog ----------------------------
EXTENDS HistoryLog

\* Bound: a session misread is not followed further; no property is about one.
Readable == ~ misread
=============================================================================
