---- MODULE MCSyncEngine ----
\* Two run slots are enough: a third concurrent run would need a second one
\* to exist first.
EXTENDS SyncEngine
====
