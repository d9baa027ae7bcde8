---- MODULE MCWebDeploy ----
EXTENDS WebDeploy
CONSTANTS a1, a2
QuotaDef == [a \in App |-> IF a = a1 THEN 3 ELSE 1]
====
