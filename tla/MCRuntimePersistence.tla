----------------------- MODULE MCRuntimePersistence -----------------------
EXTENDS RuntimePersistence

\* Repositories without a snapshot, an audit file among them, and repositories in
\* memory beside a snapshot.
WithoutLocalFiles == {{"audit", "graph", "job"}, {"state", "graph", "job", "memory"}}
=============================================================================
