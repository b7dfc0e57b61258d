----------------------------- MODULE MCWebRuns -----------------------------
EXTENDS WebRuns
CONSTANTS m1, m2, w1
MC_Messages == {m1, m2}
MC_Resumers == {w1}
=============================================================================
