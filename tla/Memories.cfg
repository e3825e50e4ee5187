SPECIFICATION FairSpec
CONSTANTS
    Kind = "knowledge"
    Memories = {m1, m2}
    Goals = {g}
    Batch = 2
    Held = {"upsert"}
    Actors = {t}
    Unprovided = {m1}
INVARIANTS EmbeddingsFollow
PROPERTIES EligibleIsGoverned ConflictsSettle
CHECK_DEADLOCK FALSE
