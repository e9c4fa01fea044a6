------------------------------ MODULE Clients ------------------------------
(***************************************************************************)
(* The names of the inputs that two clients send for each service:         *)
(* benchmark/client_utils.py, which benchmarks and warm-ups use, and       *)
(* examples/run_workflow.py. The values are left out.                      *)
(***************************************************************************)
EXTENDS TLC

Sized == {"prompt", "num_inference_steps", "seed", "height", "width"}
Channels == {"num_channels_latents"}
Negative == {"negative_prompt"}
Guided == {"guidance_scale"}
FluxGuided == {"guidance_scale", "cfg_guidance_scale"}
Controlled == {"control_image", "conditioning_scale"}

---------------------------------------------------------------------------
(* generate_a_single_request, by the family of the service.                *)

BenchT5 == [t5_workflow |-> {"text_prompt"}]
BenchSD3 ==
    [sd3_txt2img_workflow |-> Sized \cup Guided,
     sd3_txt2img_lora_workflow |-> Sized \cup Guided,
     sd3_txt2img_cfg_workflow |-> Sized \cup Negative \cup Guided,
     sd3_txt2img_lora_cfg_workflow |-> Sized \cup Negative \cup Guided,
     sd3_txt2img_controlnet_canny_workflow |-> Sized \cup Guided \cup Controlled,
     sd3_txt2img_controlnet_canny_cfg_workflow |->
         Sized \cup Negative \cup Guided \cup Controlled,
     sd3_txt2img_controlnet_pose_workflow |-> Sized \cup Guided \cup Controlled,
     sd3_txt2img_controlnet_pose_cfg_workflow |->
         Sized \cup Negative \cup Guided \cup Controlled]
BenchSD15 ==
    [sd15_txt2img_workflow |-> Sized \cup Channels \cup Negative \cup Guided,
     sd15_txt2img_cfg_workflow |-> Sized \cup Channels \cup Negative \cup Guided]
    @@ [ s \in {"sd15_txt2img_controlnet_canny_workflow",
                "sd15_txt2img_controlnet_depth_workflow"} |->
           Sized \cup Channels \cup Negative \cup Controlled ]
    @@ [ s \in {"sd15_txt2img_controlnet_canny_cfg_workflow",
                "sd15_txt2img_controlnet_depth_cfg_workflow"} |->
           Sized \cup Channels \cup Negative \cup Guided \cup Controlled ]
BenchFlux ==
    [flux_txt2img_workflow |-> Sized \cup Guided,
     flux_txt2img_cfg_workflow |-> Sized \cup Negative \cup FluxGuided]
    @@ [ s \in {"flux_txt2img_controlnet_canny_workflow",
                "flux_txt2img_controlnet_depth_workflow"} |->
           Sized \cup Guided \cup Controlled ]
    @@ [ s \in {"flux_txt2img_controlnet_canny_cfg_workflow",
                "flux_txt2img_controlnet_depth_cfg_workflow"} |->
           Sized \cup Negative \cup FluxGuided \cup Controlled ]
BenchSDXL ==
    [sdxl_txt2img_workflow |-> Sized \cup Channels \cup Guided,
     sdxl_txt2img_cfg_workflow |-> Sized \cup Channels \cup Negative \cup FluxGuided,
     sdxl_txt2img_nirvana_workflow |-> Sized \cup {"strength", "init_image_path"}]
    @@ [ s \in {"sdxl_txt2img_controlnet_canny_workflow",
                "sdxl_txt2img_controlnet_depth_workflow"} |->
           Sized \cup Channels \cup Controlled ]
    @@ [ s \in {"sdxl_txt2img_controlnet_canny_cfg_workflow",
                "sdxl_txt2img_controlnet_depth_cfg_workflow"} |->
           Sized \cup Channels \cup Negative \cup FluxGuided \cup Controlled ]
BenchFluxSchnell ==
    [flux_schnell_txt2img_workflow |-> Sized \cup Guided,
     flux_schnell_txt2img_cfg_workflow |-> Sized \cup Negative \cup FluxGuided]
    @@ [ s \in {"flux_schnell_txt2img_controlnet_canny_cfg_workflow",
                "flux_schnell_txt2img_controlnet_depth_cfg_workflow"} |->
           Sized \cup Negative \cup FluxGuided \cup Controlled ]
    @@ [ s \in {"flux_schnell_txt2img_controlnet_canny_workflow",
                "flux_schnell_txt2img_controlnet_depth_workflow"} |->
           Sized \cup Guided \cup Controlled ]
BenchSD35Large ==
    [sd35_large_txt2img_workflow |-> Sized \cup Guided,
     sd35_large_txt2img_cfg_workflow |-> Sized \cup Negative \cup Guided]
    @@ [ s \in {"sd35_large_txt2img_controlnet_canny_workflow",
                "sd35_large_txt2img_controlnet_depth_workflow"} |->
           Sized \cup Guided \cup Controlled ]
    @@ [ s \in {"sd35_large_txt2img_controlnet_canny_cfg_workflow",
                "sd35_large_txt2img_controlnet_depth_cfg_workflow"} |->
           Sized \cup Negative \cup Guided \cup Controlled ]

BenchmarkInputs ==
    BenchT5 @@ BenchSD3 @@ BenchSD15 @@ BenchFlux @@ BenchSDXL @@ BenchFluxSchnell
    @@ BenchSD35Large

---------------------------------------------------------------------------
(* run_workflow.py, which knows no Flux Schnell, SD3.5 or LoRA service.     *)

ScriptT5 == [ s \in {"t5_workflow", "t5_func_workflow"} |-> {"text_prompt"} ]
ScriptSD3 ==
    [sd3_txt2img_workflow |-> Sized,
     sd3_txt2img_cfg_workflow |-> Sized \cup Negative \cup Guided]
ScriptSD3ControlNet ==
    [ s \in {"sd3_txt2img_controlnet_canny_workflow",
             "sd3_txt2img_controlnet_pose_workflow"} |-> Sized \cup Controlled ]
    @@ [ s \in {"sd3_txt2img_controlnet_canny_cfg_workflow",
                "sd3_txt2img_controlnet_pose_cfg_workflow"} |->
           Sized \cup Negative \cup Guided \cup Controlled ]
ScriptSD15 ==
    [sd15_txt2img_workflow |-> Sized \cup Channels \cup Negative,
     sd15_txt2img_cfg_workflow |-> Sized \cup Channels \cup Negative \cup Guided]
    @@ [ s \in {"sd15_txt2img_controlnet_canny_workflow",
                "sd15_txt2img_controlnet_depth_workflow"} |->
           Sized \cup Channels \cup Negative \cup Controlled ]
    @@ [ s \in {"sd15_txt2img_controlnet_canny_cfg_workflow",
                "sd15_txt2img_controlnet_depth_cfg_workflow"} |->
           Sized \cup Channels \cup Negative \cup Guided \cup Controlled ]
ScriptFlux ==
    [flux_txt2img_workflow |-> Sized \cup Guided,
     flux_txt2img_cfg_workflow |-> Sized \cup Negative \cup FluxGuided]
    @@ [ s \in {"flux_txt2img_controlnet_canny_workflow",
                "flux_txt2img_controlnet_depth_workflow"} |->
           Sized \cup Guided \cup Controlled ]
    @@ [ s \in {"flux_txt2img_controlnet_canny_cfg_workflow",
                "flux_txt2img_controlnet_depth_cfg_workflow"} |->
           Sized \cup Negative \cup FluxGuided \cup Controlled ]
ScriptSDXL ==
    [sdxl_txt2img_workflow |-> Sized \cup Channels,
     sdxl_txt2img_cfg_workflow |-> Sized \cup Channels \cup Negative \cup Guided]
    @@ [ s \in {"sdxl_txt2img_controlnet_canny_workflow",
                "sdxl_txt2img_controlnet_depth_workflow"} |->
           Sized \cup Channels \cup Controlled ]
ScriptSDXLGuided ==
    [ s \in {"sdxl_txt2img_controlnet_canny_cfg_workflow",
             "sdxl_txt2img_controlnet_depth_cfg_workflow"} |->
        Sized \cup Channels \cup Negative \cup Guided \cup Controlled ]

ScriptInputs ==
    ScriptT5 @@ ScriptSD3 @@ ScriptSD3ControlNet @@ ScriptSD15 @@ ScriptFlux
    @@ ScriptSDXL @@ ScriptSDXLGuided

\* What a client sends for a service: both raise a ValueError for one they do
\* not know, the script when its argparse choices have not refused it before.
InputsFor(client, service) ==
    IF client = "benchmark" THEN BenchmarkInputs[service] ELSE ScriptInputs[service]
Knows(client) ==
    IF client = "benchmark" THEN DOMAIN BenchmarkInputs ELSE DOMAIN ScriptInputs
=============================================================================
