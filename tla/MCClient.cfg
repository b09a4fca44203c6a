CONSTANTS
    Rpms <- MCRpms
    MinDelays <- MCMinDelays
    max_429_retries = 1
    max_5xx_retries = 2
    MaxRedirects = 2
    MaxPages = 2
    Latencies <- MCLatencies
    RetryAfters <- MCRetryAfters
    Pauses <- MCPauses
SPECIFICATION ClientSpec
PROPERTIES
    RequestsArePaced
CHECK_DEADLOCK FALSE
