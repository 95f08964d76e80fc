\* A site with more resources than a crawl may know.
SPECIFICATION FairSpec
CONSTANTS
    Urls = {sitemap, u1, u2, u3, u4}
    SitemapUrl = sitemap
    MaxResources = 4
    MaxCapacity = 2
    MaxRedirects = 2
    None = None
INVARIANTS
    CrawlBounded
    RequestsAreUsable
PROPERTY
    CrawlEnds
