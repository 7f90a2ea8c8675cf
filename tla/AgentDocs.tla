------------------------------ MODULE AgentDocs ------------------------------
(***************************************************************************)
(* What the database promises about the documents of agents: a document    *)
(* that has been stored is never changed; it goes only when all of them    *)
(* go, and with MayErase false they never go.  AgentStore, with its lock,  *)
(* its file, its crashes and restarts, implements this.                    *)
(***************************************************************************)
CONSTANTS AgentIds, Configs, NoDoc, MayErase

VARIABLE stored   \* the document a restart would load for each agent id

NoDocs == [i \in AgentIds |-> NoDoc]

DocsInit == stored = NoDocs

\* Table::insertDocument
Insert(i, c) ==
  /\ stored[i] = NoDoc
  /\ stored' = [stored EXCEPT ![i] = c]

\* Table::deleteDocuments of everything, or a file that cannot be read back
Erase ==
  /\ MayErase
  /\ stored' = NoDocs

DocsNext ==
  \/ \E i \in AgentIds, c \in Configs : Insert(i, c)
  \/ Erase

DocsSpec == DocsInit /\ [][DocsNext]_stored
=============================================================================
