------------------------------ MODULE MCStorage ------------------------------
(***************************************************************************)
(* The modules of the ORM and of the users that rbac keeps with it, for    *)
(* TLC.  They share no state here, so focus says which of them a behaviour *)
(* is about; the others stay in one state.                                 *)
(***************************************************************************)
EXTENDS OrmTransactions, OrmMigrations, OrmModel, OrmRelation, OrmSelect, OrmPopulate,
        OrmInsert, OrmWrite, OrmSchema, UserActions

VARIABLE focus

storageVars == <<focus, txVars, migrationVars, modelVars, relationVars, selectVars, populateVars,
                 insertVars, writeVars, schemaVars, userVars>>

StorageInit ==
    /\ focus \in {"tx", "migrations", "model", "relation", "select", "populate", "insert", "write", "schema",
                  "users"}
    /\ TxInit /\ (focus # "tx" => kind = "sqlite")
    /\ MigrationInit /\ (focus # "migrations" => Mode = "None" /\ holds)
    /\ ModelInit /\ mem = [c \in ModelColumns |-> FirstValue] /\ (focus # "model" => ~keyKnown)
    /\ RelationInit /\ (focus # "relation" => lastKey = 0)
    /\ SelectInit
    /\ PopulateInit
    /\ focus # "populate" =>
         /\ shape = "query"
         /\ ref = [h \in Heads |-> NoHead] /\ link = [r \in RelRows |-> {}]
    /\ InsertInit /\ (focus # "insert" => modelKey = [m \in Records |-> NoId])
    /\ WriteInit
    /\ focus # "write" => inProgress.kind = "delete" /\ engine = "sql" /\ ~model
    /\ SchemaInit /\ (focus # "schema" => dialect = "sqlite" /\ \A n \in TableNames : tables[n] = NoTable)
    /\ UserInit

StorageNext ==
    /\ UNCHANGED focus
    /\ \/ focus = "tx" /\ TxNext
       \/ focus # "tx" /\ UNCHANGED txVars
    /\ \/ focus = "migrations" /\ MigrationNext
       \/ focus # "migrations" /\ UNCHANGED migrationVars
    /\ \/ focus = "relation" /\ RelationNext
       \/ focus # "relation" /\ UNCHANGED relationVars
    /\ \/ focus = "select" /\ SelectNext
       \/ focus # "select" /\ UNCHANGED selectVars
    /\ \/ focus = "populate" /\ PopulateNext
       \/ focus # "populate" /\ UNCHANGED populateVars
    /\ \/ focus = "insert" /\ InsertNext
       \/ focus # "insert" /\ UNCHANGED insertVars
    /\ \/ focus = "write" /\ WriteNext
       \/ focus # "write" /\ UNCHANGED writeVars
    /\ \/ focus = "schema" /\ SchemaNext
       \/ focus # "schema" /\ UNCHANGED schemaVars
    /\ \/ focus = "users" /\ UserNext
       \/ focus # "users" /\ UNCHANGED userVars
    /\ \/ focus = "model" /\ ModelNext
       \/ focus # "model" /\ UNCHANGED modelVars

StorageSpec == StorageInit /\ [][StorageNext]_storageVars
==============================================================================
