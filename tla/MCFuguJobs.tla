------------------------------ MODULE MCFuguJobs ------------------------------
EXTENDS FuguJobs

MCWorkerPrice == [m \in 0..1 |-> m + 1]

Models(s)   == Assign("model_id", [i \in DOMAIN s |-> PyInt(s[i])])
Subtasks(n) == Assign("subtasks", [i \in 1..n |-> Py("text")])
Access(s)   == Assign("access_list", s)

\* One step with the bare access list []; a step that calls the Conductor
\* again and one that reads it; a forward reference, which the gate refuses;
\* and a list of models in prose before the one that counts.
MCTexts == {
    <<Models(<<1>>), Subtasks(1), Access(<<>>)>>,
    <<Models(<<2, 0>>), Subtasks(2), Access(<<Py("none"), PyList(<<PyInt(0)>>)>>)>>,
    <<Models(<<0, 1>>), Subtasks(2), Access(<<PyList(<<PyInt(1)>>), PyList(<<>>)>>)>>,
    <<Models(<<0, 0, 0>>), Models(<<0, 2>>), Subtasks(2), Access(<<PyList(<<>>), Py("all")>>)>> }
===============================================================================
