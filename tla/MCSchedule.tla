----------------------------- MODULE MCSchedule -----------------------------
(***************************************************************************)
(* Generations and Pools for TLC.  fast is an image of a version both      *)
(* Pools have; slow a video of another version and a lower priority, at    *)
(* the limits of the first Pool; rare an image with a LoRA only the second *)
(* Pool has.  A Worker offers one Slot for each of its Pools.              *)
(***************************************************************************)
EXTENDS Schedule

CONSTANTS fast, slow, rare, gpu0, gpu1

MCManifest ==
  "image-a" :> [modality |-> "image", steps |-> 4, sigmas |-> 0]
    @@ "video-b" :> [modality |-> "video", steps |-> 8, sigmas |-> 6]

MCRequest ==
  fast :> [version |-> "image-a", priority |-> 9, width |-> 64, height |-> 64,
           frames |-> 0, loras |-> {}, steps |-> 2, sigmas |-> 0]
    @@ slow :> [version |-> "video-b", priority |-> 1, width |-> 64, height |-> 32,
                frames |-> 22, loras |-> {}, steps |-> 0, sigmas |-> 0]
    @@ rare :> [version |-> "image-a", priority |-> 5, width |-> 64, height |-> 96,
                frames |-> 0, loras |-> {"lora-c"}, steps |-> 0, sigmas |-> 0]

\* The Worker of the second Pool, which runs images, may be started again
\* with another configuration, with which it runs videos.
MCReports ==
  gpu0 :> {[versions |-> {"image-a", "video-b"}, loras |-> {}, slots |-> 1,
            maxImagePixels |-> 4096, maxVideoFrames |-> 22,
            maxVideoPixels |-> NoLimit, maxSteps |-> 6]}
    @@ gpu1 :> {[versions |-> {"image-a"}, loras |-> {"lora-c"}, slots |-> 1,
                 maxImagePixels |-> 8192, maxVideoFrames |-> NoLimit,
                 maxVideoPixels |-> NoLimit, maxSteps |-> NoLimit],
                [versions |-> {"video-b"}, loras |-> {}, slots |-> 1,
                 maxImagePixels |-> NoLimit, maxVideoFrames |-> 22,
                 maxVideoPixels |-> NoLimit, maxSteps |-> NoLimit]}

\* The same, the second Pool with its first configuration only.
MCFixed == [MCReports EXCEPT ![gpu1] = {c \in @ : "lora-c" \in c.loras}]
=============================================================================
