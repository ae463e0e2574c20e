------------------------------ MODULE MCBridge ------------------------------
EXTENDS Bridge
CONSTANTS g1, g2, cli
const_Goals == {g1, g2}
const_Others == {cli}
const_Clients == {g1, g2, cli}
one_Goal == {g1}
one_Clients == {g1, cli}
no_Others == {}
====
