------------------------------ MODULE MCConfig ------------------------------
(* Features, images and devcontainer.json files for model-checking Config. *)
EXTENDS Config, TLC

MCText == STRING

Shell(text) == [form |-> "shell", text |-> text]
Mount(type, source, target, ro) ==
    [type |-> type, source |-> source, target |-> target, readOnly |-> ro]

Layer(id, hook) == [NoLayer EXCEPT !.id = id, !.hook = hook]

(* docker is privileged, starts a daemon and keeps its data in a volume;   *)
(* tools sets an environment that depends on the host.                     *)
MCMetadata ==
    [docker |-> [Layer("docker", Shell("docker-init"))
                   EXCEPT !.privileged = "true", !.entrypoint = "dockerd",
                          !.capAdd = <<"ptrace">>,
                          !.mounts = <<Mount("volume", "$", "data", FALSE),
                                       Mount("bind", "sock", "sock", TRUE)>>],
     tools  |-> [Layer("tools", [form |-> "parallel", text |-> "install"])
                   EXCEPT !.env = [PATH |-> "tools", HOME |-> "$", MODE |-> "nil"],
                          !.entrypoint = "agent", !.remoteUser = "dev",
                          !.mounts = <<Mount("tmpfs", "", "data", FALSE)>>]]

(* The label of the published image, as the tool that built it wrote it.   *)
MCPublished ==
    <<[Layer("common", [form |-> "exec", text |-> "setup"])
         EXCEPT !.env = [NoEnv EXCEPT !.PATH = "base"], !.capAdd = <<"ptrace", "net">>,
                !.remoteUser = "$"],
      [NoLayer EXCEPT !.remoteUser = "vscode", !.waitFor = "onCreate"]>>

User(source, base, features) ==
    [source |-> source, base |-> base, features |-> features,
     id |-> "", remoteUser |-> "", privileged |-> "nil", env |-> NoEnv,
     capAdd |-> <<>>, mounts |-> <<>>, entrypoint |-> "", hook |-> NoHook,
     waitFor |-> ""]

MCConfigs ==
    {User("image", "published", <<"tools">>),
     [User("image", "published", <<"docker">>)
        EXCEPT !.remoteUser = "$", !.hook = Shell("mine"),
               !.env = [NoEnv EXCEPT !.PATH = "mine"]],
     User("image", "prebuilt", <<"docker", "tools">>),
     [User("compose", "published", <<"docker", "tools">>)
        EXCEPT !.mounts = <<Mount("bind", "src", "workspace", FALSE),
                            Mount("volume", "cache", "data", TRUE)>>],
     [User("compose", "published", <<"docker", "tools">>)
        EXCEPT !.mounts = <<Mount("bind", "src", "workspace", FALSE)>>],
     [User("compose", "prebuilt", <<"tools">>)
        EXCEPT !.hook = Shell("mine"), !.waitFor = "postCreate"],
     [User("compose", "prebuilt", <<"tools">>) EXCEPT !.hook = Shell("other")],
     User("compose", "published", <<>>)}

(* A privileged service that already mounts something at data.             *)
MCService ==
    [volumes |-> <<Mount("bind", "conf", "conf", FALSE),
                   Mount("bind", "other", "sock", FALSE)>>,
     env |-> [PATH |-> "compose", HOME |-> "nil", MODE |-> "dev"], privileged |-> TRUE,
     capAdd |-> <<"sys">>,
     entrypoint |-> [scripts |-> <<>>, original |-> <<>>, dollar |-> ""]]

MCEntrypoint == <<"init">>

MCExtra == <<Mount("bind", "extra", "conf", FALSE),
             Mount("volume", "vol", "vol", FALSE)>>
=============================================================================
