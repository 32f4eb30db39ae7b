------------------------ MODULE MCConformanceRunner ------------------------
(* Registries for TLC: well-formed or not, with a name that comes twice.    *)
EXTENDS ConformanceRunner

Tool(n, ok) == [name |-> n, schemas |-> ok]

SmallRegistries ==
    {<<>>,
     <<Tool("index_directory", TRUE)>>,
     <<Tool("", TRUE)>>,
     <<Tool("index_directory", FALSE), Tool("index_directory", TRUE)>>,
     <<Tool("index_directory", TRUE), Tool("index_directory", FALSE)>>}
=============================================================================
