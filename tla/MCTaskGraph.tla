----------------------------- MODULE MCTaskGraph -----------------------------
EXTENDS TaskGraph

\* Two tasks that a third waits for, and one by itself.
Fan == {<<0, 2>>, <<1, 2>>}
==============================================================================
