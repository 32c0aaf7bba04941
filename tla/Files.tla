--------------------------------- MODULE Files ----------------------------------
(***************************************************************************)
(* The components that keep something on disk.  They share neither a file  *)
(* nor a lock, so a behaviour exercises one of them, its workload, and the *)
(* others stay as they were: the state space is the sum of theirs and not  *)
(* the product.                                                            *)
(***************************************************************************)
EXTENDS FileWriter, RuntimeToml, Goldberg, Stores, HostManifest, Provision,
        Preflight

CONSTANT Workloads  \* bound: the components exercised

VARIABLE workload

filesVars == <<workload, writerVars, tomlVars, dllVars, storeVars, manifestVars,
               provisionVars, preflightVars>>

(* A component that is not exercised starts in one fixed state. *)
Parked(component, fixed) == workload # component => fixed

FilesInit ==
    /\ workload \in Workloads
    /\ WriterInit /\ Parked("writer", solid /\ OnDisk = None)
    /\ TomlInit /\ Parked("toml", toml = NoFile)
    /\ DllInit /\ Parked("goldberg", api = Nothing /\ backup = Nothing /\ payload = Pin)
    /\ StoreInit /\ Parked("stores", settings = CHOOSE f \in Forms : TRUE)
    /\ ManifestInit /\ Parked("manifest", manifest = NoManifest)
    /\ ProvisionInit /\ Parked("provision", /\ pin = CHOOSE p \in Pins : TRUE
                                           /\ offer = CHOOSE o \in Offers : TRUE)
    /\ PreflightInit /\ Parked("preflight", /\ conf = "dxmt" /\ staged = "arm64"
                                           /\ built = "arm64" /\ pins = "stale"
                                           /\ cfg = [protocol |-> "alvr", inproc |-> FALSE]
                                           /\ \A s \in Looks : look[s] = "pass")

FilesNext ==
    /\ UNCHANGED workload
    /\ \/ /\ workload = "writer" /\ WriterNext
          /\ UNCHANGED <<tomlVars, dllVars, storeVars, manifestVars, provisionVars, preflightVars>>
       \/ /\ workload = "toml" /\ TomlNext
          /\ UNCHANGED <<writerVars, dllVars, storeVars, manifestVars, provisionVars, preflightVars>>
       \/ /\ workload = "goldberg" /\ DllNext
          /\ UNCHANGED <<writerVars, tomlVars, storeVars, manifestVars, provisionVars, preflightVars>>
       \/ /\ workload = "stores" /\ StoreNext
          /\ UNCHANGED <<writerVars, tomlVars, dllVars, manifestVars, provisionVars, preflightVars>>
       \/ /\ workload = "manifest" /\ ManifestNext
          /\ UNCHANGED <<writerVars, tomlVars, dllVars, storeVars, provisionVars, preflightVars>>
       \/ /\ workload = "provision" /\ ProvisionNext
          /\ UNCHANGED <<writerVars, tomlVars, dllVars, storeVars, manifestVars, preflightVars>>
       \/ /\ workload = "preflight" /\ PreflightNext
          /\ UNCHANGED <<writerVars, tomlVars, dllVars, storeVars, manifestVars, provisionVars>>

FilesSpec == FilesInit /\ [][FilesNext]_filesVars
=============================================================================
