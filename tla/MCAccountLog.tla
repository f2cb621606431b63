---- MODULE MCAccountLog ----
EXTENDS AccountLog
CONSTANTS a, b
====
