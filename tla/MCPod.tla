------------------------------- MODULE MCPod -------------------------------
(* Instance: the two programs of the image.  A server with one call from the *)
(* intranet and one public call, or two runs of the migration job.           *)
EXTENDS ServerLife, Migration

CONSTANT intra

MCPort == [c \in Calls |-> IF c = intra THEN "intranet" ELSE "public"]

VARIABLE program

MCvars == <<program, vars, migrationVars>>

MCInit ==
  /\ program \in {"server", "migrate"}
  /\ LifeInit /\ MigrationInit
  /\ program = "server" => only = [r \in Runs |-> FALSE]
  /\ program = "migrate" =>
       ~public /\ ~faulty /\ \A c \in PublicCalls : header[c] = CHOOSE h \in Header : TRUE

MCNext ==
  /\ \/ program = "server"  /\ LifeNext      /\ UNCHANGED migrationVars
     \/ program = "migrate" /\ MigrationNext /\ UNCHANGED vars
  /\ UNCHANGED program

MCSpec == MCInit /\ [][MCNext]_MCvars /\ LifeFairness
=============================================================================
